---- MODULE Spec2Model ----
(***************************************************************************)
(* Model of app/youtube_downloader.py: the DownloadManager process runner  *)
(* (start / cancel), the child processes it spawns, the worker threads of  *)
(* the single, batch and playlist tabs, the ui_queue and the UI thread     *)
(* that drains it and handles the Download / Cancel buttons.               *)
(*                                                                         *)
(* Every worker statement that reads or writes state shared with another   *)
(* thread (DownloadManager.process, DownloadManager.cancelled, the child's *)
(* pipe and exit status, ui_queue) is a step of its own; pc values are the *)
(* source line numbers of the statement about to execute.                  *)
(***************************************************************************)
EXTENDS Integers, Sequences, FiniteSets, TLC

\* ------------------------------------------------------------- bounds
MaxJobs  == 2     \* worker threads alive at the same time
MaxLines == 2     \* output lines one child writes
MaxItems == 2     \* rows of the batch list
MaxPending == 2   \* enqueue places waiting in ui_queue between two drains
MaxOverlap == 1   \* Download clicks made while an earlier job has not ended
MaxUpdates == 2   \* check_update threads alive at the same time
AssetChunks == 1  \* chunks of the yt-dlp.exe asset
MaxFragments == 3 \* fragments of one output line

\* ---------------------------------------------------------- constants
None      == 0     \* DownloadManager.process = None
Cancelled == -1    \* return -1, "Cancelled"
ExcCode   == 1     \* return 1, str(e)
RcNone    == 99    \* Popen.poll() -> None (the process has not exited)

Kinds     == {"single", "batch", "playlist"}
Jobs      == 1 .. MaxJobs
Children  == 1 .. 2 * MaxJobs   \* a start() call holds at most its own child and the one it reads
Rows      == 1 .. MaxItems
ExitCodes == {0, 2}       \* codes the child exits with on its own
KillCodes == {1, -9}      \* TerminateProcess(h, 1) on Windows, -SIGKILL on POSIX
Updaters  == 1 .. MaxUpdates
IdleMeta == [pc |-> "idle", idx |-> 0]
IdleUpdate == [pc |-> "idle", tag |-> "", got |-> 0, ok |-> FALSE, msg |-> "",
               unhandled |-> ""]

VARIABLES
    process,    \* [Kinds -> child id or None]   <kind>_mgr.process
    cancelled,  \* [Kinds -> BOOLEAN]            <kind>_mgr.cancelled
    child,      \* [Children -> child process], followed while a start() call refers to it
    thr,        \* [Jobs -> worker thread state]
    ui_queue,   \* queue.Queue of (fn, args) pairs
    ui,         \* widgets, the UI thread's position, what the UI thread applied
    rows,       \* [Rows -> batch row: chk_var]
    tab,        \* the tab the user works in
    gh,         \* [Jobs -> history of the job, used only to state properties]
    cfg,        \* the module-level configuration dict (line 89)
    disk,       \* the files: config.json, yt-dlp.exe, its .bak, yt-dlp.tmp
    folder_var, \* [Kinds -> text of the tab's folder entry]
    upd,        \* [Updaters -> thread of check_update]
    out_line,   \* an output line handed to the line callbacks
    meta_thr,   \* the thread of _batch_metadata_worker
    events      \* what the line callbacks enqueued for it

vars == <<process, cancelled, child, thr, ui_queue, ui, rows, tab, gh,
          cfg, disk, folder_var, upd, out_line, meta_thr, events>>

\* the state of the download threads, and the rest
app == <<process, cancelled, child, thr, ui_queue, ui, rows, tab, gh>>
aux == <<cfg, disk, folder_var, upd, out_line, meta_thr, events>>

\* ------------------------------------------------------------ helpers
EntryPc(k) == CASE k = "single"   -> "w684"
                [] k = "batch"    -> "b886"
                [] k = "playlist" -> "p988"

\* where the worker continues when start() returns
AfterStart(k) == CASE k = "single"   -> "w779"
                   [] k = "batch"    -> "b963"
                   [] k = "playlist" -> "p1073"

StartPcs == {"s202", "s208", "s212", "s216", "s216r", "s217", "s223"}

InStart(w) == thr[w].pc \in StartPcs

Alive(w) == thr[w].pc \notin {"idle", "done"}

\* start() has returned to worker w, which has not yet used the result
Returned(w) == thr[w].pc \in {"w779", "b963", "p1073"}

IdleThread == [kind |-> "none", pc |-> "idle", own |-> None, rd |-> None,
               line |-> [k |-> "", n |-> 0], rc |-> RcNone,
               todo |-> <<>>, idx |-> 0, total |-> 0, completed |-> 0,
               nItems |-> 0]

\* what is recorded of one start() call: the flag was set during the call
\* (flagSet), the call saw it at line 212 (flagSeen), cancel() killed the
\* call's live child (cancelLive), lines dispatched after the flag was set,
\* an exception was caught (raised), the lines dispatched and whether each
\* was the one written next (dispatched, inOrder), the call's own child when
\* it returned (ownSt, ownRc, asked to end: ownKill, lines it wrote:
\* ownWritten, lines left in its pipe: ownLeft)
NoRun == [flagSet |-> FALSE, flagSeen |-> FALSE, cancelLive |-> FALSE,
          linesAfter |-> 0, raised |-> FALSE,
          dispatched |-> 0, inOrder |-> TRUE,
          ownSt |-> "none", ownRc |-> RcNone, ownKill |-> FALSE,
          ownWritten |-> 0, ownLeft |-> 0]

\* what is recorded of one job: actions enqueued, start() calls, metadata
\* fetches, the dialog shown, Cancel pressed (and at which item), the calls
\* that returned 0, the current start() call, whether the playlist metadata
\* parsed or the fetch failed (meta), the exception that ended the thread
\* (unhandled), Cancel
\* pressed before the coming start() call has executed line 202 (early)
NoHistory == [enq |-> FALSE, nStart |-> 0, nFetch |-> 0, dialog |-> "",
              toolsMissing |-> FALSE, cancelReq |-> FALSE, cancelIdx |-> 0,
              zeros |-> 0, run |-> NoRun, meta |-> "", unhandled |-> "",
              early |-> FALSE]

NoChild  == [st |-> "none", rc |-> RcNone, pipe |-> <<>>, written |-> 0,
             kill |-> FALSE]
NewChild == [NoChild EXCEPT !.st = "running"]

\* the children a manager's handle or a running start() call still refers to
Referred(t, p) == {p[k] : k \in Kinds} \cup {t[w].own : w \in Jobs} \cup {t[w].rd : w \in Jobs}

\* a child no handle and no start() call refers to any more is not followed
Release(ch, t, p) == [c \in Children |-> IF c \in Referred(t, p) THEN ch[c] ELSE NoChild]

FreeChild == CHOOSE c \in Children :
                /\ child[c].st = "none"
                /\ \A d \in Children : child[d].st = "none" => c <= d

\* a poll() that tells only whether the process has exited
Poll_Zero(c) == IF child[c].st = "exited" THEN 0 ELSE RcNone

\* Popen.poll(): the exit status once the process has exited, else None
Poll(c) == IF child[c].st = "exited" THEN child[c].rc ELSE RcNone

\* Popen.kill(): asks the OS to end the process; a process that has already
\* closed its output or exited is not affected
Kill(ch, c) == IF ch[c].st = "running" THEN [ch EXCEPT ![c].kill = TRUE] ELSE ch

\* enqueue_ui(fn, *a) called by job w for each of acts, in order. at is the
\* place of the calls in the job: <<item, phase, line>>, phase 0 the opening
\* block, 1 the item's start, 2 a line callback, 3 the result, 4 the closing
\* block; k counts the calls made at that place
RECURSIVE enqueue_ui(_, _, _, _, _)
enqueue_ui(q, w, at, k, acts) ==
    IF acts = <<>> THEN q
    ELSE enqueue_ui(Append(q, [job |-> w, key |-> at \o <<k + 1>>,
                               act |-> Head(acts)[1], arg |-> Head(acts)[2],
                               row |-> Head(acts)[3]]),
                    w, at, k + 1, Tail(acts))

\* the worker's enqueue calls of at most MaxPending places wait in the queue
\* between two runs of _process_ui_queue
Room == Cardinality({i \in 1 .. Len(ui_queue) : ui_queue[i].key[4] = 1}) < MaxPending

\* the order of two places: a was enqueued before b
Before(a, b) ==
    \E i \in 1 .. 4 : a[i] < b[i] /\ \A j \in 1 .. (i - 1) : a[j] = b[j]

\* ------------------------------------------- the configuration record
\* Python values: str, bool and None
PStr(x) == [t |-> "str", v |-> x]
PTrue   == [t |-> "bool", v |-> "True"]
PFalse  == [t |-> "bool", v |-> "False"]
PNone   == [t |-> "NoneType", v |-> "None"]

\* JSON literals as json.dump writes and json.load reads them
JString(x) == [lit |-> "string", s |-> x]
JFalse     == [lit |-> "false", s |-> ""]
JNull      == [lit |-> "null", s |-> ""]

\* json.dump of one value
Encode(v) == CASE v.t = "str" -> JString(v.v)
               [] v = PTrue   -> [lit |-> "true", s |-> ""]
               [] v = PFalse  -> JFalse
               [] OTHER       -> JNull

\* json.load of one literal
Decode(j) == CASE j.lit = "string" -> PStr(j.s)
               [] j.lit = "true"   -> PTrue
               [] j.lit = "false"  -> PFalse
               [] OTHER            -> PNone

\* lines 61-70; "~/Downloads" and resources/icon.ico are the two paths
DEFAULT_DOWNLOAD == "~/Downloads"

DefaultKeys == {"download_folder", "theme", "auto_open_folder", "auto_update_ytdlp",
                "audio_format", "last_checked", "app_icon"}

DEFAULT_CONFIG ==
    [k \in DefaultKeys |->
        CASE k = "download_folder"   -> PStr(DEFAULT_DOWNLOAD)
          [] k = "theme"             -> PStr("dark")
          [] k = "auto_open_folder"  -> PTrue
          [] k = "auto_update_ytdlp" -> PTrue
          [] k = "audio_format"      -> PStr("m4a")
          [] k = "last_checked"      -> PNone
          [] k = "app_icon"          -> PStr("resources/icon.ico")]

\* the keys a config.json may hold: the default keys and one this version of
\* the program does not know, in the order json.dump writes them
KeyOrder == <<"download_folder", "theme", "auto_open_folder", "auto_update_ytdlp",
              "audio_format", "last_checked", "app_icon", "window">>

\* a dict as a function from its keys; d[k] = v
EmptyDict == [k \in {} |-> PNone]

SetItem(d, k, v) == [x \in DOMAIN d \cup {k} |-> IF x = k THEN v ELSE d[x]]

\* config.json: absent, text that is not JSON, JSON that is not an object (a
\* number, a list, null), or an object, written as its members in order

\* json.dump(cfg, f): one member per key, each value as its JSON literal
json_dump(d) ==
    LET keys == SelectSeq(KeyOrder, LAMBDA k : k \in DOMAIN d)
    IN [kind |-> "object",
        members |-> [i \in 1 .. Len(keys) |-> [key |-> keys[i], val |-> Encode(d[keys[i]])]]]

\* json.load(f) of an object: the members in order, a repeated key keeps its
\* last value
RECURSIVE json_load(_)
json_load(ms) ==
    IF ms = <<>> THEN EmptyDict
    ELSE SetItem(json_load(SubSeq(ms, 1, Len(ms) - 1)),
                 ms[Len(ms)].key, Decode(ms[Len(ms)].val))

\* load_config that resets every default key
load_config_Overwrite(file) ==
    IF file.kind = "object"
    THEN LET stored == json_load(file.members)
         IN [k \in DOMAIN stored \cup DefaultKeys |->
                IF k \in DefaultKeys THEN DEFAULT_CONFIG[k] ELSE stored[k]]
    ELSE DEFAULT_CONFIG

\* load_config, lines 72-83: a file that is absent or that json.load rejects
\* gives the defaults, and so does JSON that is not an object (cfg[k] = v
\* raises TypeError, caught at line 81); an object gets the default of every
\* default key it lacks
load_config(file) ==
    IF file.kind = "object"
    THEN LET stored == json_load(file.members)
         IN [k \in DOMAIN stored \cup DefaultKeys |->
                IF k \in DOMAIN stored THEN stored[k] ELSE DEFAULT_CONFIG[k]]
    ELSE DEFAULT_CONFIG

\* save_config, lines 85-87
save_config(d) == [disk EXCEPT !.config = json_dump(d)]

\* the files yt-dlp.exe, yt-dlp.exe.bak and yt-dlp.tmp hold n chunks of the
\* asset of release tag
NoFile == [tag |-> "", n |-> 0]

\* lines 689, 895, 993: folder = var.get().strip() or cfg.get("download_folder", ...)
Folder(k) == IF folder_var[k] # "" THEN folder_var[k] ELSE cfg["download_folder"].v

\* lines 690-692, 896-898, 994-996: os.makedirs(folder); cfg["download_folder"]
\* = folder; save_config(cfg). Either call raises OSError (a folder that
\* cannot be created, a config.json that cannot be written)
Failures == {"", "os.makedirs", "save_config"}

SaveFolder(k, fail) ==
    /\ cfg' = IF fail = "os.makedirs" THEN cfg
              ELSE SetItem(cfg, "download_folder", PStr(Folder(k)))
    /\ disk' = IF fail = "" THEN save_config(cfg') ELSE disk

\* lines 697, 900, 998: os.path.isfile(YTDLP) and os.path.isfile(FFMPEG)
ToolsFound == IF disk.tool = NoFile THEN {FALSE} ELSE BOOLEAN

\* -------------------------------------------------- the line callbacks
\* An output line is a sequence of pieces of text: every digit, ".", "%",
\* " ", "/", "\\" and the newline are pieces of their own, the other pieces
\* are words that hold none of these characters.
Digits == {"0", "1", "2", "3", "4", "5", "9"}
Seps   == {"/", "\\"}      \* os.sep and os.altsep of ntpath

DigitVal(d) == CASE d = "0" -> 0 [] d = "1" -> 1 [] d = "2" -> 2 [] d = "3" -> 3
                 [] d = "4" -> 4 [] d = "5" -> 5 [] d = "9" -> 9

\* the text as one str
RECURSIVE Flat(_)
Flat(t) == IF t = <<>> THEN "" ELSE Head(t) \o Flat(Tail(t))

\* p in t
HasSub(t, p) == \E i \in 1 .. Len(t) - Len(p) + 1 : SubSeq(t, i, i + Len(p) - 1) = p

\* t.split(p, 1)[1] for a piece p that is in t
AfterFirst(t, p) ==
    LET i == CHOOSE j \in 1 .. Len(t) : t[j] = p /\ \A h \in 1 .. (j - 1) : t[h] # p
    IN SubSeq(t, i + 1, Len(t))

\* t.split(p)[0]
BeforeFirst(t, p) ==
    IF \E j \in 1 .. Len(t) : t[j] = p
    THEN SubSeq(t, 1, (CHOOSE j \in 1 .. Len(t) : t[j] = p /\ \A h \in 1 .. (j - 1) : t[h] # p) - 1)
    ELSE t

\* t.strip()
Strip(t) ==
    LET keep == {i \in 1 .. Len(t) : t[i] \notin {" ", "\n"}}
    IN IF keep = {} THEN <<>>
       ELSE SubSeq(t, CHOOSE i \in keep : \A j \in keep : i <= j,
                      CHOOSE i \in keep : \A j \in keep : j <= i)

\* str.lower() of a piece
LowerPiece(x) == CASE x = "MP" -> "mp" [] x = "M" -> "m" [] x = "A" -> "a"
                   [] x = "WEBM" -> "webm" [] x = "My Video" -> "my video"
                   [] x = "Song" -> "song" [] x = "C:" -> "c:" [] OTHER -> x

Lower(t) == [i \in 1 .. Len(t) |-> LowerPiece(t[i])]

\* the digits at the front of t
RECURSIVE DigitsFrom(_, _)
DigitsFrom(t, i) == IF i <= Len(t) /\ t[i] \in Digits THEN 1 + DigitsFrom(t, i + 1) ELSE 0

\* int() of a run of digits
RECURSIVE IntVal(_)
IntVal(ds) == IF ds = <<>> THEN 0 ELSE 10 * IntVal(SubSeq(ds, 1, Len(ds) - 1)) + DigitVal(ds[Len(ds)])

RECURSIVE Pow10(_)
Pow10(n) == IF n = 0 THEN 1 ELSE 10 * Pow10(n - 1)

\* PERC_RE = (\d{1,3}\.\d+)% matches at i: one to three digits up to a ".",
\* then every digit that follows, then "%"
MatchAt(t, i) ==
    LET a == DigitsFrom(t, i)
        b == DigitsFrom(t, i + a + 1)
    IN /\ a \in 1 .. 3
       /\ i + a <= Len(t) /\ t[i + a] = "."
       /\ b >= 1
       /\ i + a + 1 + b <= Len(t) /\ t[i + a + 1 + b] = "%"

\* m = PERC_RE.search(line), line 175: the leftmost match; float(m.group(1))
\* is num / den
PERC_RE_search(t) ==
    IF \E i \in 1 .. Len(t) : MatchAt(t, i)
    THEN LET i == CHOOSE j \in 1 .. Len(t) : MatchAt(t, j) /\ \A h \in 1 .. (j - 1) : ~MatchAt(t, h)
             a == DigitsFrom(t, i)
             b == DigitsFrom(t, i + a + 1)
         IN [found |-> TRUE, group1 |-> SubSeq(t, i, i + a + b),
             num |-> IntVal(SubSeq(t, i, i + a - 1) \o SubSeq(t, i + a + 1, i + a + b)),
             den |-> Pow10(b)]
    ELSE [found |-> FALSE, group1 |-> <<>>, num |-> 0, den |-> 1]

\* os.path.basename (ntpath): what follows the last separator or the drive
basename(path) ==
    LET cut == {i \in 1 .. Len(path) : path[i] \in Seps \cup {"C:"}}
    IN IF cut = {} THEN path
       ELSE SubSeq(path, (CHOOSE i \in cut : \A j \in cut : j <= i) + 1, Len(path))

\* os.path.splitext: the extension starts at the last dot of the last
\* component, the dots the component begins with not counted
splitext(path) ==
    LET seps == {i \in 1 .. Len(path) : path[i] \in Seps}
        sepIndex == IF seps = {} THEN 0 ELSE CHOOSE i \in seps : \A j \in seps : j <= i
        dots == {i \in 1 .. Len(path) : path[i] = "."}
        dotIndex == IF dots = {} THEN 0 ELSE CHOOSE i \in dots : \A j \in dots : j <= i
    IN IF dotIndex > sepIndex /\ \E i \in (sepIndex + 1) .. (dotIndex - 1) : path[i] # "."
       THEN <<SubSeq(path, 1, dotIndex - 1), SubSeq(path, dotIndex, Len(path))>>
       ELSE <<path, <<>> >>

\* a title that keeps the extension
DestinationTitle_KeepExt(fname) == Flat(basename(fname))

\* lines 750-752, 1056-1058: fname = os.path.basename(fname);
\* fname = os.path.splitext(fname)[0]
DestinationTitle(fname) == Flat(splitext(basename(fname))[1])

AudioExts == {".m4a", ".mp3", ".opus", ".aac", ".wav"}
VideoExts == {".mp4", ".webm", ".mkv", ".avi", ".mov"}

\* an enqueued call fn(text) or fn(num / den)
Ev(fn, text) == [fn |-> fn, text |-> text, num |-> 0, den |-> 1]
EvNum(fn, text, num, den) == [fn |-> fn, text |-> text, num |-> num, den |-> den]

DownloadDestination == <<"[download]", " ", "Destination:">>

\* line_cb of _single_download_worker, lines 719-775; current_type is the
\* closure's variable
single_line_cb(t, current_type) ==
    LET m == PERC_RE_search(t)
        progress == IF m.found
                    THEN << EvNum("single_progress.set", "", m.num, m.den * 100),
                            Ev("single_pct_label", Flat(m.group1) \o "%") >>
                    ELSE <<>>
        fname == Strip(AfterFirst(t, "Destination:"))
        ext == Flat(Lower(splitext(fname)[2]))
        title == IF HasSub(t, DownloadDestination)
                 THEN (IF ext \in AudioExts THEN << Ev("lbl_status", "Downloading Audio...") >>
                       ELSE IF ext \in VideoExts THEN << Ev("lbl_status", "Downloading Video...") >>
                       ELSE <<>>)
                      \o << Ev("lbl_title", DestinationTitle(fname)) >>
                 ELSE IF HasSub(t, <<"[download]">>) /\ HasSub(t, <<"has already been downloaded">>)
                 THEN << Ev("lbl_title", "Already downloaded"),
                         EvNum("single_progress.set", "", 1, 1),
                         Ev("single_pct_label", "100%") >>
                 ELSE <<>>
        status == IF HasSub(t, <<"[Merger]">>)
                  THEN << Ev("lbl_status", "Merging Video & Audio..."),
                          EvNum("single_progress.set", "", 1, 1),
                          Ev("single_pct_label", "100%") >>
                  ELSE IF HasSub(t, <<"[ExtractAudio]">>)
                  THEN << Ev("lbl_status", "Extracting Audio...") >>
                  ELSE <<>>
    IN [acts |-> progress \o title \o status \o << Ev("_append_log", Flat(Strip(t))) >>,
        phase |-> IF ~HasSub(t, DownloadDestination) THEN current_type
                  ELSE IF ext \in AudioExts THEN "audio"
                  ELSE IF ext \in VideoExts THEN "video" ELSE current_type]

\* f"{pct:.0f}": the nearest whole number, a half to the even one
RoundHalfEven(num, den) ==
    LET q == num \div den
        r == num % den
    IN IF 2 * r > den \/ (2 * r = den /\ q % 2 = 1) THEN q + 1 ELSE q

\* line_cb of _batch_worker, lines 925-959; current_stage is the closure's
\* variable; the status text is f"{current_stage}: {pct:.0f}%"
batch_line_cb(t, current_stage) ==
    LET m == PERC_RE_search(t)
        fname == Strip(AfterFirst(t, "Destination:"))
        ext == Flat(Lower(splitext(fname)[2]))
        stage == IF HasSub(t, DownloadDestination)
                 THEN (IF ext \in VideoExts THEN "Video"
                       ELSE IF ext \in AudioExts THEN "Audio" ELSE current_stage)
                 ELSE IF HasSub(t, <<"[Merger]">>) THEN "Merging"
                 ELSE IF HasSub(t, <<"has already been downloaded">>) THEN "Exists"
                 ELSE current_stage
    IN IF ~HasSub(t, DownloadDestination) /\ HasSub(t, <<"[Merger]">>)
       THEN [acts |-> << Ev("row.set_status", "Merging...") >>, phase |-> stage]
       ELSE IF ~HasSub(t, DownloadDestination) /\ HasSub(t, <<"has already been downloaded">>)
       THEN [acts |-> << Ev("row.set_status", "Exists") >>, phase |-> stage]
       ELSE [acts |-> (IF m.found
                       THEN << EvNum("row.set_status", stage, RoundHalfEven(m.num, m.den), 1) >>
                       ELSE <<>>)
                      \o << Ev("_append_log", Flat(Strip(t))) >>,
             phase |-> stage]

\* line.split("Downloading video")[1].strip().split("of"): the two counts, when
\* both parts are whole numbers (int() raises on anything else)
Counts(t) ==
    LET rest == Strip(BeforeFirst(AfterFirst(t, "Downloading video"), "Downloading video"))
        hasOf == \E j \in 1 .. Len(rest) : rest[j] = "of"
        p0 == Strip(BeforeFirst(rest, "of"))
        p1 == Strip(BeforeFirst(AfterFirst(rest, "of"), "of"))
        isInt(ds) == ds # <<>> /\ \A i \in 1 .. Len(ds) : ds[i] \in Digits
    IN IF hasOf /\ isInt(p0) /\ isInt(p1)
       THEN [ok |-> TRUE, curr |-> IntVal(p0), tot |-> IntVal(p1)]
       ELSE [ok |-> FALSE, curr |-> 0, tot |-> 0]

\* line_cb of _playlist_worker, lines 1039-1069; the title is
\* f"[{current_item}/{total_items}] {fname}"
playlist_line_cb(t, current_item, total_items) ==
    LET m == PERC_RE_search(t)
        c == IF HasSub(t, <<"Downloading video">>) /\ HasSub(t, <<"of">>) /\ Counts(t).ok
             THEN [curr |-> Counts(t).curr, tot |-> Counts(t).tot]
             ELSE [curr |-> current_item, tot |-> total_items]
        fname == Strip(AfterFirst(t, "Destination:"))
        title == IF HasSub(t, DownloadDestination)
                 THEN << EvNum("lbl_pl_title", DestinationTitle(fname), c.curr, c.tot) >>
                 ELSE <<>>
    IN [acts |-> title \o
                 (IF m.found
                  THEN << EvNum("playlist_progress.set", "", m.num, m.den * 100),
                          Ev("playlist_pct_label", Flat(m.group1) \o "%") >>
                  ELSE << Ev("_append_log", "[playlist] " \o Flat(Strip(t))) >>),
        current_item |-> c.curr, total_items |-> c.tot]

\* what was enqueued for out_line: by which worker's callback (kind), with
\* which value of the closure's variable before and after (was, phase)
NoEvents == [kind |-> "none", was |-> "", acts |-> <<>>, phase |-> "",
             current_item |-> 0, total_items |-> 0]

\* DownloadManager.start, line 221: line_callback(line), for the callback of
\* each worker
SingleLine ==
    /\ out_line # <<>> /\ events = NoEvents
    /\ \E mode \in {"video", "audio"} :
         events' = [kind |-> "single", was |-> mode,
                    acts |-> single_line_cb(out_line, mode).acts,
                    phase |-> single_line_cb(out_line, mode).phase,
                    current_item |-> 0, total_items |-> 0]
    /\ UNCHANGED <<app, cfg, disk, folder_var, upd, out_line, meta_thr>>

BatchLine ==
    /\ out_line # <<>> /\ events = NoEvents
    /\ \E stage \in {"Init", "Video"} :
         events' = [kind |-> "batch", was |-> stage,
                    acts |-> batch_line_cb(out_line, stage).acts,
                    phase |-> batch_line_cb(out_line, stage).phase,
                    current_item |-> 0, total_items |-> 0]
    /\ UNCHANGED <<app, cfg, disk, folder_var, upd, out_line, meta_thr>>

PlaylistLine ==
    /\ out_line # <<>> /\ events = NoEvents
    /\ events' = [kind |-> "playlist", was |-> "",
                  acts |-> playlist_line_cb(out_line, 1, MaxItems).acts,
                  phase |-> "",
                  current_item |-> playlist_line_cb(out_line, 1, MaxItems).current_item,
                  total_items |-> playlist_line_cb(out_line, 1, MaxItems).total_items]
    /\ UNCHANGED <<app, cfg, disk, folder_var, upd, out_line, meta_thr>>

\* ------------------------------------------------- the child process
\* the child writes one complete line to its stdout/stderr pipe
ChildWrite(c) ==
    /\ child[c].st = "running"
    /\ ~child[c].kill
    /\ child[c].written < MaxLines
    /\ \E k \in {"pct"} :      \* the lines the child writes: "[download]  45.2% ..."
         child' = [child EXCEPT ![c].pipe = Append(@, [k |-> k, n |-> child[c].written + 1]),
                                ![c].written = @ + 1]
    /\ UNCHANGED <<process, cancelled, thr, ui_queue, ui, rows, tab, gh, aux>>

\* the child stops and its end of the pipe closes: on its own with one of
\* ExitCodes, or killed with one of KillCodes
ChildClose(c) ==
    /\ child[c].st = "running"
    /\ \E code \in (IF child[c].kill THEN KillCodes ELSE ExitCodes) :
         child' = [child EXCEPT ![c].st = "closed", ![c].rc = code]
    /\ UNCHANGED <<process, cancelled, thr, ui_queue, ui, rows, tab, gh, aux>>

\* the exit status becomes available to poll()
ChildExit(c) ==
    /\ child[c].st = "closed"
    /\ child' = [child EXCEPT ![c].st = "exited"]
    /\ UNCHANGED <<process, cancelled, thr, ui_queue, ui, rows, tab, gh, aux>>

\* ------------------------------------------ DownloadManager.start()
\* start() without its finally clause: the handle is cleared on the normal
\* and the cancelled way out, not when an exception was caught
Return_NoFinally(w, code, h, ch) ==
    /\ thr' = [thr EXCEPT ![w].pc = AfterStart(thr[w].kind), ![w].rc = code,
                          ![w].own = None, ![w].rd = None,
                          ![w].line = [k |-> "", n |-> 0]]
    /\ process' = IF h.raised THEN process ELSE [process EXCEPT ![thr[w].kind] = None]
    /\ child' = Release(ch, thr', process')
    /\ gh' = [gh EXCEPT ![w].run =
                 [h EXCEPT !.ownSt = IF thr[w].own = None THEN "none" ELSE ch[thr[w].own].st,
                           !.ownRc = IF thr[w].own = None THEN RcNone ELSE ch[thr[w].own].rc,
                           !.ownKill = thr[w].own # None /\ ch[thr[w].own].kill,
                           !.ownWritten = IF thr[w].own = None THEN 0 ELSE ch[thr[w].own].written,
                           !.ownLeft = IF thr[w].own = None THEN 0 ELSE Len(ch[thr[w].own].pipe)]]

\* every way out of start(): the finally clause clears the handle, then the
\* caller continues with the returned code
Return(w, code, h, ch) ==
    /\ thr' = [thr EXCEPT ![w].pc = AfterStart(thr[w].kind), ![w].rc = code,
                          ![w].own = None, ![w].rd = None,
                          ![w].line = [k |-> "", n |-> 0]]
    /\ process' = [process EXCEPT ![thr[w].kind] = None]
    /\ child' = Release(ch, thr', process')
    /\ gh' = [gh EXCEPT ![w].run =
                 [h EXCEPT !.ownSt = IF thr[w].own = None THEN "none" ELSE ch[thr[w].own].st,
                           !.ownRc = IF thr[w].own = None THEN RcNone ELSE ch[thr[w].own].rc,
                           !.ownKill = thr[w].own # None /\ ch[thr[w].own].kill,
                           !.ownWritten = IF thr[w].own = None THEN 0 ELSE ch[thr[w].own].written,
                           !.ownLeft = IF thr[w].own = None THEN 0 ELSE Len(ch[thr[w].own].pipe)]]

\* line 202: self.cancelled = False
Start202(w) ==
    /\ thr[w].pc = "s202"
    /\ cancelled' = [cancelled EXCEPT ![thr[w].kind] = FALSE]
    /\ thr' = [thr EXCEPT ![w].pc = "s208", ![w].own = None]
    /\ gh' = [gh EXCEPT ![w].nStart = @ + 1, ![w].run = NoRun]
    /\ UNCHANGED <<process, child, ui_queue, ui, rows, tab, aux>>

\* line 208: self.process = subprocess.Popen(...); Popen raises when the
\* executable cannot be started
Start208(w) ==
    /\ thr[w].pc = "s208"
    /\ \/ /\ thr' = [thr EXCEPT ![w].pc = "s212", ![w].own = FreeChild]
          /\ process' = [process EXCEPT ![thr[w].kind] = FreeChild]
          /\ child' = Release([child EXCEPT ![FreeChild] = NewChild], thr', process')
          /\ UNCHANGED gh
       \/ Return(w, ExcCode, [gh[w].run EXCEPT !.raised = TRUE], child)
    /\ UNCHANGED <<cancelled, ui_queue, ui, rows, tab, aux>>

\* a read loop that does not look at the flag
Start212_NoCheck(w) ==
    /\ thr[w].pc = "s212"
    /\ thr' = [thr EXCEPT ![w].pc = "s216"]
    /\ UNCHANGED <<process, cancelled, child, ui_queue, ui, rows, tab, gh, aux>>

\* lines 212-214: if self.cancelled: self.process.kill(); return -1
Start212(w) ==
    LET m == thr[w].kind IN
    /\ thr[w].pc = "s212"
    /\ IF cancelled[m]
       THEN IF process[m] = None
            THEN \* None.kill(): AttributeError, caught at line 225
                 Return(w, ExcCode, [gh[w].run EXCEPT !.flagSeen = TRUE, !.raised = TRUE], child)
            ELSE Return(w, Cancelled, [gh[w].run EXCEPT !.flagSeen = TRUE],
                        Kill(child, process[m]))
       ELSE /\ thr' = [thr EXCEPT ![w].pc = "s216"]
            /\ UNCHANGED <<process, child, gh>>
    /\ UNCHANGED <<cancelled, ui_queue, ui, rows, tab, aux>>

\* line 216: self.process.stdout is evaluated, then readline() is entered
Start216(w) ==
    LET m == thr[w].kind IN
    /\ thr[w].pc = "s216"
    /\ IF process[m] = None
       THEN Return(w, ExcCode, [gh[w].run EXCEPT !.raised = TRUE], child)
       ELSE /\ thr' = [thr EXCEPT ![w].pc = "s216r", ![w].rd = process[m]]
            /\ UNCHANGED <<process, child, gh>>
    /\ UNCHANGED <<cancelled, ui_queue, ui, rows, tab, aux>>

\* line 216: readline() returns the next complete line, or "" at end of file;
\* it blocks while the pipe is empty and open. Decoding the bytes (text=True,
\* strict errors) raises UnicodeDecodeError on a byte the locale encoding
\* does not define.
Start216r(w) ==
    LET c == thr[w].rd IN
    /\ thr[w].pc = "s216r"
    /\ \/ /\ child[c].pipe # <<>>
          /\ thr' = [thr EXCEPT ![w].pc = "s217", ![w].rd = None,
                                ![w].line = Head(child[c].pipe)]
          /\ child' = Release([child EXCEPT ![c].pipe = Tail(@)], thr', process)
          /\ UNCHANGED <<process, gh>>
       \/ /\ child[c].pipe # <<>>
          /\ Return(w, ExcCode, [gh[w].run EXCEPT !.raised = TRUE],
                    [child EXCEPT ![c].pipe = Tail(@)])
       \/ /\ child[c].pipe = <<>>
          /\ child[c].st # "running"
          /\ thr' = [thr EXCEPT ![w].pc = "s217", ![w].rd = None,
                                ![w].line = [k |-> "", n |-> 0]]
          /\ child' = Release(child, thr', process)
          /\ UNCHANGED <<process, gh>>
    /\ UNCHANGED <<cancelled, ui_queue, ui, rows, tab, aux>>

\* line 223: rc = self.process.poll(); return rc, "Done"
Start223(w) ==
    LET m == thr[w].kind IN
    /\ thr[w].pc = "s223"
    /\ IF process[m] = None
       THEN Return(w, ExcCode, [gh[w].run EXCEPT !.raised = TRUE], child)
       ELSE Return(w, Poll(process[m]), gh[w].run, child)
    /\ UNCHANGED <<cancelled, ui_queue, ui, rows, tab, aux>>

\* the line callbacks: what line_cb enqueues for a line, per worker
\* (single: lines 719-775, batch: 925-959, playlist: 1039-1069)
line_cb(k, line, row) ==
    CASE k = "single" /\ line.k = "pct" ->
           << <<"single_progress.set", "pct", 0>>,
              <<"single_pct_label", "pct", 0>>,
              <<"_append_log", "line", 0>> >>
      [] k = "single" /\ line.k = "merger" ->
           << <<"lbl_status", "Merging Video & Audio...", 0>>,
              <<"single_progress.set", "1.0", 0>>,
              <<"single_pct_label", "100%", 0>>,
              <<"_append_log", "line", 0>> >>
      [] k = "batch" /\ line.k = "pct" ->
           << <<"row.set_status", "Stage: pct%", row>>,
              <<"_append_log", "line", 0>> >>
      [] k = "batch" /\ line.k = "merger" ->
           << <<"row.set_status", "Merging...", row>> >>
      [] k = "playlist" /\ line.k = "pct" ->
           << <<"playlist_progress.set", "pct", 0>>,
              <<"playlist_pct_label", "pct", 0>> >>
      [] OTHER ->
           << <<"_append_log", "[playlist] line", 0>> >>

CurrentRow(w) == IF thr[w].kind = "batch" THEN thr[w].todo[thr[w].idx] ELSE 0

\* a read loop that leaves at the first empty read, the child exited or not
Start217_BreakOnEmpty(w) ==
    LET m == thr[w].kind IN
    /\ thr[w].pc = "s217"
    /\ IF thr[w].line.k = ""
       THEN /\ thr' = [thr EXCEPT ![w].pc = "s223"]
            /\ UNCHANGED <<process, child, gh, ui_queue>>
       ELSE /\ Room /\ ui_queue' = enqueue_ui(ui_queue, w, <<thr[w].idx, 2, thr[w].line.n>>, 0,
                                      line_cb(m, thr[w].line, CurrentRow(w)))
            /\ gh' = [gh EXCEPT ![w].enq = TRUE,
                                ![w].run.linesAfter = IF gh[w].run.flagSet THEN @ + 1 ELSE @,
                                ![w].run.inOrder = @ /\ thr[w].line.n = gh[w].run.dispatched + 1,
                                ![w].run.dispatched = @ + 1]
            /\ thr' = [thr EXCEPT ![w].pc = "s212", ![w].line = [k |-> "", n |-> 0]]
            /\ UNCHANGED <<process, child>>
    /\ UNCHANGED <<cancelled, ui, rows, tab, aux>>

\* lines 217-221: if not line and self.process.poll() is not None: break
\*                if line: line_callback(line)
Start217(w) ==
    LET m == thr[w].kind IN
    /\ thr[w].pc = "s217"
    /\ IF thr[w].line.k = ""
       THEN /\ IF process[m] = None
               THEN Return(w, ExcCode, [gh[w].run EXCEPT !.raised = TRUE], child)
               ELSE /\ thr' = [thr EXCEPT ![w].pc = IF Poll(process[m]) # RcNone
                                                  THEN "s223" ELSE "s212"]
                    /\ UNCHANGED <<process, child, gh>>
            /\ UNCHANGED ui_queue
       ELSE /\ Room /\ ui_queue' = enqueue_ui(ui_queue, w, <<thr[w].idx, 2, thr[w].line.n>>, 0,
                                      line_cb(m, thr[w].line, CurrentRow(w)))
            /\ gh' = [gh EXCEPT ![w].enq = TRUE,
                                ![w].run.linesAfter = IF gh[w].run.flagSet THEN @ + 1 ELSE @,
                                ![w].run.inOrder = @ /\ thr[w].line.n = gh[w].run.dispatched + 1,
                                ![w].run.dispatched = @ + 1]
            /\ thr' = [thr EXCEPT ![w].pc = "s212", ![w].line = [k |-> "", n |-> 0]]
            /\ UNCHANGED <<process, child>>
    /\ UNCHANGED <<cancelled, ui, rows, tab, aux>>

\* ------------------------------------------------ the worker threads
\* a worker that ends at once and posts its message through the queue
Dialog_Enqueue(w, what, missing) ==
    /\ thr' = [thr EXCEPT ![w].pc = "done"]
    /\ gh' = [gh EXCEPT ![w].dialog = what, ![w].toolsMissing = missing, ![w].enq = TRUE]
    /\ ui_queue' = enqueue_ui(ui_queue, w, <<0, 0, 0>>, 0, << <<"_append_log", what, 0>> >>)

\* a worker that ends at once: messagebox shown from the worker thread
Dialog(w, what, missing) ==
    /\ thr' = [thr EXCEPT ![w].pc = "done"]
    /\ gh' = [gh EXCEPT ![w].dialog = what, ![w].toolsMissing = missing]
    /\ UNCHANGED ui_queue

\* an exception nothing in the worker catches: the thread ends where it is
Raise(w, where) ==
    /\ thr' = [thr EXCEPT ![w].pc = "done"]
    /\ gh' = [gh EXCEPT ![w].unhandled = where]

\* the worker has used the code start() returned: rc is not read again, the
\* record of the call is closed
Used(w, h) == [h EXCEPT ![w].enq = TRUE, ![w].run = NoRun, ![w].early = FALSE,
                        ![w].zeros = IF thr[w].rc = 0 THEN @ + 1 ELSE @]

\* _single_download_worker, lines 685-715; os.makedirs(folder) and
\* save_config(cfg) raise OSError on a folder or a config file that cannot be
\* written, and nothing in the worker catches it
Single684(w) ==
    /\ thr[w].pc = "w684"
    /\ \E url \in {"", "u"}, fail \in Failures, tools \in ToolsFound :
         IF url = "" THEN Dialog(w, "Please paste a URL.", FALSE) /\ UNCHANGED <<cfg, disk>>
         ELSE IF fail # "" THEN Raise(w, fail) /\ SaveFolder("single", fail) /\ UNCHANGED ui_queue
         ELSE IF ~tools THEN Dialog(w, "Tools missing (yt-dlp/ffmpeg).", TRUE) /\ SaveFolder("single", fail)
         ELSE /\ SaveFolder("single", fail)
              /\ Room /\ ui_queue' = enqueue_ui(ui_queue, w, <<0, 0, 0>>, 0,
                    << <<"single_progress.set", "0.0", 0>>,
                       <<"single_pct_label", "0%", 0>>,
                       <<"lbl_title", "Fetching info...", 0>>,
                       <<"lbl_status", "Starting...", 0>>,
                       <<"single_btn", "disabled", 0>>,
                       <<"btn_cancel_single", "normal", 0>>,
                       <<"_append_log", "Starting single download", 0>> >>)
              /\ gh' = [gh EXCEPT ![w].enq = TRUE]
              /\ thr' = [thr EXCEPT ![w].pc = "s202"]
    /\ UNCHANGED <<process, cancelled, child, ui, rows, tab, folder_var, upd, out_line, meta_thr, events>>

\* _single_download_worker, lines 779-794
Single779(w) ==
    LET rc == thr[w].rc
        tail == IF rc = 0
                THEN << <<"single_progress.set", "1.0", 0>>,
                        <<"single_pct_label", "100%", 0>>,
                        <<"lbl_status", "Finished.", 0>>,
                        <<"_append_log", "Single download finished.", 0>> >>
                ELSE IF rc = -1
                THEN << <<"lbl_status", "Cancelled.", 0>> >>
                ELSE << <<"lbl_status", "Error.", 0>>,
                        <<"_append_log", "Single download failed (code rc).", 0>> >>
        acts == << <<"single_btn", "normal", 0>>,
                   <<"btn_cancel_single", "disabled", 0>> >> \o tail
    IN
    /\ thr[w].pc = "w779"
    /\ Room /\ ui_queue' = enqueue_ui(ui_queue, w, <<0, 3, 0>>, 0, acts)
    /\ gh' = Used(w, gh)
    /\ thr' = [thr EXCEPT ![w].pc = "done", ![w].rc = RcNone]
    /\ UNCHANGED <<process, cancelled, child, ui, rows, tab, aux>>

\* every row of the list, ticked or not
Checked_All(n) == [i \in 1 .. n |-> i]

\* _batch_worker, lines 888-907; Checked is the rows whose box is ticked, in
\* list order
RECURSIVE Checked(_)
Checked(n) == IF n = 0 THEN <<>>
              ELSE IF rows[n].chk THEN Append(Checked(n - 1), n) ELSE Checked(n - 1)

Batch886(w) ==
    /\ thr[w].pc = "b886"
    /\ \E fail \in Failures, tools \in ToolsFound :
         IF Checked(MaxItems) = <<>> THEN Dialog(w, "No items selected.", FALSE) /\ UNCHANGED <<cfg, disk>>
         ELSE IF fail # "" THEN Raise(w, fail) /\ SaveFolder("batch", fail) /\ UNCHANGED ui_queue
         ELSE IF ~tools THEN Dialog(w, "Tools missing.", TRUE) /\ SaveFolder("batch", fail)
         ELSE /\ SaveFolder("batch", fail)
              /\ Room /\ ui_queue' = enqueue_ui(ui_queue, w, <<0, 0, 0>>, 0,
                    << <<"_append_log", "Starting batch download", 0>>,
                       <<"batch_btn", "disabled", 0>>,
                       <<"btn_cancel_batch", "normal", 0>>,
                       <<"batch_progress.set", "0.0", 0>> >>)
              /\ gh' = [gh EXCEPT ![w].enq = TRUE]
              /\ thr' = [thr EXCEPT ![w].pc = "b911", ![w].todo = Checked(MaxItems),
                                    ![w].total = Len(Checked(MaxItems)),
                                    ![w].idx = 0, ![w].completed = 0]
    /\ UNCHANGED <<process, cancelled, child, ui, rows, tab, folder_var, upd, out_line, meta_thr, events>>

\* _batch_worker, lines 911-916: the next item of the for loop, the check of
\* batch_mgr.cancelled, the item's "Downloading..." status
Batch911(w) ==
    /\ thr[w].pc = "b911"
    /\ IF thr[w].idx = thr[w].total \/ cancelled["batch"]
       THEN /\ thr' = [thr EXCEPT ![w].pc = "b976"]
            /\ UNCHANGED <<ui_queue, gh>>
       ELSE /\ Room /\ ui_queue' = enqueue_ui(ui_queue, w, <<thr[w].idx + 1, 1, 0>>, 0,
                    << <<"row.set_status", "Downloading...", thr[w].todo[thr[w].idx + 1]>>,
                       <<"_append_log", "Batch [idx/total]", 0>> >>)
            /\ gh' = [gh EXCEPT ![w].enq = TRUE]
            /\ thr' = [thr EXCEPT ![w].pc = "s202", ![w].idx = @ + 1]
    /\ UNCHANGED <<process, cancelled, child, ui, rows, tab, aux>>

\* a batch worker that starts a failed item again
Batch963_Retry(w) ==
    /\ thr[w].pc = "b963"
    /\ Room
    /\ ui_queue' = enqueue_ui(ui_queue, w, <<thr[w].idx, 3, 0>>, 0,
          << <<"row.set_status", IF thr[w].rc = 0 THEN "Done"
                                 ELSE IF thr[w].rc = -1 THEN "Cancelled" ELSE "Failed",
               thr[w].todo[thr[w].idx]>> >>)
    /\ gh' = Used(w, gh)
    /\ thr' = [thr EXCEPT ![w].pc = IF thr[w].rc = -1 THEN "b976"
                                    ELSE IF thr[w].rc = 0 THEN "b911" ELSE "s202",
                          ![w].rc = RcNone,
                          ![w].completed = IF thr[w].rc = 0 THEN @ + 1 ELSE @]
    /\ rows' = [rows EXCEPT ![thr[w].todo[thr[w].idx]].zero = (thr[w].rc = 0)]
    /\ UNCHANGED <<process, cancelled, child, ui, tab, aux>>

\* _batch_worker, lines 963-974; zero records of a row that its last run
\* returned 0
Batch963(w) ==
    LET rc == thr[w].rc
        row == thr[w].todo[thr[w].idx]
        acts == IF rc = 0
                THEN << <<"row.set_status", "Done", row>>,
                        <<"row.chk_var", "False", row>>,
                        <<"batch_progress.set", "idx/total", 0>> >>
                ELSE IF rc = -1
                THEN << <<"row.set_status", "Cancelled", row>> >>
                ELSE << <<"row.set_status", "Failed", row>>,
                        <<"batch_progress.set", "idx/total", 0>> >>
    IN
    /\ thr[w].pc = "b963"
    /\ Room /\ ui_queue' = enqueue_ui(ui_queue, w, <<thr[w].idx, 3, 0>>, 0, acts)
    /\ gh' = Used(w, gh)
    /\ thr' = [thr EXCEPT ![w].pc = IF rc = -1 THEN "b976" ELSE "b911",
                          ![w].rc = RcNone,
                          ![w].completed = IF rc = 0 THEN @ + 1 ELSE @]
    /\ rows' = [rows EXCEPT ![row].zero = (rc = 0)]
    /\ UNCHANGED <<process, cancelled, child, ui, tab, aux>>

\* _batch_worker, lines 976-978
Batch976(w) ==
    /\ thr[w].pc = "b976"
    /\ Room /\ ui_queue' = enqueue_ui(ui_queue, w, <<thr[w].idx, 4, 0>>, 0,
          << <<"batch_btn", "normal", 0>>,
             <<"btn_cancel_batch", "disabled", 0>>,
             <<"_append_log", "Batch finished: completed/total done.", 0>> >>)
    /\ gh' = [gh EXCEPT ![w].enq = TRUE]
    /\ thr' = [thr EXCEPT ![w].pc = "done"]
    /\ UNCHANGED <<process, cancelled, child, ui, rows, tab, aux>>

\* _playlist_worker, lines 989-1007
Playlist988(w) ==
    /\ thr[w].pc = "p988"
    /\ \E url \in {"", "u"}, fail \in Failures, tools \in ToolsFound :
         IF url = "" THEN Dialog(w, "Please paste a playlist URL.", FALSE) /\ UNCHANGED <<cfg, disk>>
         ELSE IF fail # "" THEN Raise(w, fail) /\ SaveFolder("playlist", fail) /\ UNCHANGED ui_queue
         ELSE IF ~tools THEN Dialog(w, "yt-dlp.exe or ffmpeg.exe missing.", TRUE) /\ SaveFolder("playlist", fail)
         ELSE /\ SaveFolder("playlist", fail)
              /\ Room /\ ui_queue' = enqueue_ui(ui_queue, w, <<0, 0, 0>>, 0,
                    << <<"playlist_btn", "disabled", 0>>,
                       <<"btn_cancel_pl", "normal", 0>>,
                       <<"lbl_pl_title", "Fetching playlist info...", 0>>,
                       <<"_append_log", "Fetching playlist info...", 0>> >>)
              /\ gh' = [gh EXCEPT ![w].enq = TRUE]
              /\ thr' = [thr EXCEPT ![w].pc = "p1012"]
    /\ UNCHANGED <<process, cancelled, child, ui, rows, tab, folder_var, upd, out_line, meta_thr, events>>

\* a worker that goes on to the download whatever the metadata process
\* returned
AfterMeta_Always(rc) == "s202"

\* lines 1013-1017: if rc != 0: ...; return
AfterMeta(rc) == IF rc # 0 THEN "done" ELSE "s202"

\* what "yt-dlp --flat-playlist -J" printed: text that is not JSON, JSON that
\* is not an object, an object with no entries, an object with entries
MetaOutputs == {"garbage", "scalar", "empty", "listing"}

\* lines 1021-1028: j = json.loads(out); total = len(j.get("entries", []));
\* except Exception: total = None
ParseTotal(out) ==
    CASE out = "garbage" -> [ok |-> FALSE, n |-> 0]    \* json.loads raises
      [] out = "scalar"  -> [ok |-> FALSE, n |-> 0]    \* j.get raises
      [] out = "empty"   -> [ok |-> TRUE,  n |-> 0]
      [] out = "listing" -> [ok |-> TRUE,  n |-> MaxItems]

\* line 1030: f"... (approx. {total if total else 'unknown'} items)..."
StartMessage(total) ==
    IF total.ok /\ total.n # 0 THEN "Starting playlist download (approx. n items)..."
    ELSE "Starting playlist download (approx. unknown items)..."

\* a playlist worker that gives up when the metadata do not parse
Playlist1012_AbortUnparsed(w) ==
    /\ thr[w].pc = "p1012"
    /\ \E rc \in ExitCodes, out \in MetaOutputs :
         LET total == ParseTotal(out)
             acts == IF rc # 0 \/ ~total.ok
                     THEN << <<"_append_log", "Failed to fetch playlist info.", 0>>,
                             <<"playlist_btn", "normal", 0>>,
                             <<"btn_cancel_pl", "disabled", 0>> >>
                     ELSE << <<"_append_log", StartMessage(total), 0>>,
                             <<"playlist_pct_label", "0%", 0>> >>
         IN /\ Room /\ ui_queue' = enqueue_ui(ui_queue, w, <<0, 1, 0>>, 0, acts)
            /\ gh' = [gh EXCEPT ![w].enq = TRUE, ![w].nFetch = @ + 1,
                                ![w].meta = IF rc # 0 THEN "failed" ELSE IF total.ok THEN "parsed" ELSE "unparsed"]
            /\ thr' = [thr EXCEPT ![w].pc = IF rc # 0 \/ ~total.ok THEN "done" ELSE "s202",
                                  ![w].total = IF rc # 0 \/ ~total.ok THEN @
                                               ELSE IF total.n = 0 THEN 1 ELSE total.n]
    /\ UNCHANGED <<process, cancelled, child, ui, rows, tab, aux>>

\* _playlist_worker, lines 1012-1036: run_process_stream(cmd_info) returns the
\* metadata process's exit code and output, or raises when the process cannot
\* be spawned or its output not decoded (nothing in the worker catches it);
\* the output is parsed for the item count; total_items = total if total else 1
Playlist1012(w) ==
    /\ thr[w].pc = "p1012"
    /\ \/ \E rc \in ExitCodes, out \in MetaOutputs :
            LET total == ParseTotal(out)
                acts == IF rc # 0
                        THEN << <<"_append_log", "Failed to fetch playlist info.", 0>>,
                                <<"playlist_btn", "normal", 0>>,
                                <<"btn_cancel_pl", "disabled", 0>> >>
                        ELSE << <<"_append_log", StartMessage(total), 0>>,
                                <<"playlist_pct_label", "0%", 0>> >>
            IN /\ Room /\ ui_queue' = enqueue_ui(ui_queue, w, <<0, 1, 0>>, 0, acts)
               /\ gh' = [gh EXCEPT ![w].enq = TRUE, ![w].nFetch = @ + 1,
                                   ![w].meta = IF rc # 0 THEN "failed" ELSE IF total.ok THEN "parsed" ELSE "unparsed"]
               /\ thr' = [thr EXCEPT ![w].pc = AfterMeta(rc),
                                     ![w].total = IF rc # 0 THEN @
                                                  ELSE IF total.n = 0 THEN 1 ELSE total.n]
       \/ /\ Raise(w, "run_process_stream")
          /\ UNCHANGED ui_queue
    /\ UNCHANGED <<process, cancelled, child, ui, rows, tab, aux>>

\* _playlist_worker, lines 1073-1088
Playlist1073(w) ==
    LET rc == thr[w].rc
        tail == IF rc = 0
                THEN << <<"_append_log", "Playlist download completed.", 0>>,
                        <<"playlist_pct_label", "100%", 0>>,
                        <<"lbl_pl_title", "Playlist Finished", 0>> >>
                ELSE IF rc = -1
                THEN << <<"lbl_pl_title", "Cancelled", 0>>,
                        <<"_append_log", "Playlist download cancelled.", 0>> >>
                ELSE << <<"lbl_pl_title", "Error", 0>>,
                        <<"_append_log", "Playlist download failed.", 0>> >>
        acts == << <<"playlist_btn", "normal", 0>>,
                   <<"btn_cancel_pl", "disabled", 0>> >> \o tail
    IN
    /\ thr[w].pc = "p1073"
    /\ Room /\ ui_queue' = enqueue_ui(ui_queue, w, <<0, 3, 0>>, 0, acts)
    /\ gh' = Used(w, gh)
    /\ thr' = [thr EXCEPT ![w].pc = "done", ![w].rc = RcNone]
    /\ UNCHANGED <<process, cancelled, child, ui, rows, tab, aux>>

\* ---------------------------------------------------- the UI thread

DownloadBtn == [single |-> "single_btn", batch |-> "batch_btn", playlist |-> "playlist_btn"]
CancelBtn   == [single |-> "btn_cancel_single", batch |-> "btn_cancel_batch",
                playlist |-> "btn_cancel_pl"]

\* a status of a batch run has been applied to row r: the row is the i-th
\* item of a batch job of which an action of item i or later was applied
Begun(u, r) ==
    \E w \in Jobs :
       /\ thr[w].kind = "batch"
       /\ \E i \in 1 .. Len(thr[w].todo) : thr[w].todo[i] = r /\ i <= u.key[w][1]

\* fn(*a, **kw) of one queued action, applied to the widgets S.u and the
\* rows S.r; the fields key, shown, final, late, fifo record what was applied,
\* overwrote that the metadata thread's row.set_status (lines 868-880) was
\* applied to a row after a status of the row's download run
Applied(S, it) ==
    LET u1 == CASE \E k \in Kinds : it.act = DownloadBtn[k] ->
                     [S.u EXCEPT !.btn[CHOOSE k \in Kinds : it.act = DownloadBtn[k]] = it.arg]
                [] \E k \in Kinds : it.act = CancelBtn[k] ->
                     [S.u EXCEPT !.cancelBtn[CHOOSE k \in Kinds : it.act = CancelBtn[k]] = it.arg]
                [] OTHER -> S.u
        u2 == IF it.job = 0
              THEN [u1 EXCEPT !.overwrote = @ \/ (it.act = "row.set_status" /\ Begun(S.u, it.row))]
              ELSE [u1 EXCEPT
                      !.fifo = @ /\ Before(S.u.key[it.job], it.key),
                      !.key[it.job] = it.key,
                      !.shown[it.job] = @ \/ it.key[2] = 2,
                      !.late[it.job] = @ \/ (S.u.final[it.job] /\ it.act \in {"single_progress.set", "single_pct_label",
                                                                         "lbl_status", "lbl_title"}),
                      !.final[it.job] = @ \/ (it.act = "lbl_status" /\ it.arg \in {"Finished.", "Cancelled.", "Error."})]
        r1 == IF it.act = "row.chk_var" THEN [S.r EXCEPT ![it.row].chk = FALSE] ELSE S.r
    IN [u |-> u2, r |-> r1]

\* a worker thread that has ended and has nothing left in the queue is gone:
\* its slot, and what was recorded of it, are free for the next thread (the
\* next Download click takes them)
Gone(w, t, q) == t[w].pc = "done" /\ \A i \in 1 .. Len(q) : q[i].job # w

NoKey == <<0, 0, 0, 0>>

Forget(u, t, q) == [u EXCEPT !.key = [w \in Jobs |-> IF Gone(w, t, q) THEN NoKey ELSE @[w]],
                           !.shown = [w \in Jobs |-> IF Gone(w, t, q) THEN FALSE ELSE @[w]],
                           !.final = [w \in Jobs |-> IF Gone(w, t, q) THEN FALSE ELSE @[w]]]

\* _process_ui_queue, lines 648-658: get_nowait() until the queue is empty,
\* each action applied as it is taken
\* the state S is worked out once, then the action is applied to it
Apply(S, it) == CHOOSE R \in {Applied(T, it) : T \in {S}} : TRUE

\* a drain that takes the newest action first
Drain_Lifo(S, q) ==
    LET f[i \in 0 .. Len(q)] == IF i = 0 THEN S ELSE Apply(f[i - 1], q[Len(q) + 1 - i])
    IN f[Len(q)]

\* _process_ui_queue, lines 648-658: get_nowait() until the queue is empty,
\* each action applied as it is taken; f[i] is the widgets after i actions
Drain(S, q) ==
    LET f[i \in 0 .. Len(q)] == IF i = 0 THEN S ELSE Apply(f[i - 1], q[i])
    IN f[Len(q)]

_process_ui_queue ==
    /\ ui.pc = "idle"
    /\ ui_queue # <<>>
    /\ ui' = Drain([u |-> ui, r |-> rows], ui_queue).u
    /\ rows' = Drain([u |-> ui, r |-> rows], ui_queue).r
    /\ ui_queue' = <<>>
    /\ UNCHANGED <<process, cancelled, child, thr, tab, gh, aux>>

\* start_single_download / start_batch_download / start_playlist_download,
\* lines 681-682, 883-884, 985-986: the button's command starts a worker thread
Free(w) == thr[w].pc = "idle" \/ Gone(w, thr, ui_queue)

FreeJob == CHOOSE w \in Jobs : Free(w) /\ \A v \in Jobs : Free(v) => w <= v

start_download(k) ==
    /\ k = tab
    /\ ui.pc = "idle"
    /\ ui.btn[k] = "normal"
    /\ \E w \in Jobs : Free(w)
    /\ thr' = [w \in Jobs |-> IF w = FreeJob THEN [IdleThread EXCEPT !.kind = k, !.pc = EntryPc(k)]
                               ELSE IF Free(w) THEN IdleThread ELSE thr[w]]
    /\ gh' = [w \in Jobs |-> IF Free(w) THEN NoHistory ELSE gh[w]]
    /\ ui' = [Forget(ui, thr, ui_queue) EXCEPT
                !.over = IF \A w \in Jobs : Free(w) THEN @ ELSE @ + 1]
    /\ UNCHANGED <<process, cancelled, child, ui_queue, rows, tab, aux>>

\* cancel_single / cancel_batch / cancel_playlist, lines 663-676, entering
\* DownloadManager.cancel, line 231: self.cancelled = True
cancel231(k) ==
    /\ k = tab
    /\ ui.pc = "idle"
    /\ ui.cancelBtn[k] = "normal"
    /\ cancelled' = [cancelled EXCEPT ![k] = TRUE]
    /\ ui' = [ui EXCEPT !.pc = "c232", !.ck = k]
    /\ gh' = [w \in Jobs |->
                IF thr[w].kind = k /\ Alive(w)
                THEN [gh[w] EXCEPT !.cancelReq = TRUE,
                                   !.cancelIdx = IF @ # 0 THEN @
                                                 ELSE IF thr[w].idx = 0 THEN 1 ELSE thr[w].idx,
                                   !.run.flagSet = @ \/ thr[w].pc \in (StartPcs \ {"s202"}),
                                   !.early = @ \/ thr[w].pc \in {"s202", "p1012"}]
                ELSE gh[w]]
    /\ UNCHANGED <<process, child, thr, ui_queue, rows, tab, aux>>

\* DownloadManager.cancel, lines 232-236: if self.process: self.process.kill(),
\* then the Cancel button is disabled and the log line enqueued
cancel232 ==
    LET k == ui.ck IN
    /\ ui.pc = "c232"
    /\ child' = IF process[k] # None THEN Kill(child, process[k]) ELSE child
    /\ ui' = [ui EXCEPT !.pc = "idle", !.cancelBtn[k] = "disabled"]
    /\ ui_queue' = Append(ui_queue, [job |-> 0, key |-> NoKey, act |-> "_append_log",
                                     arg |-> "cancelled by user.", row |-> 0])
    /\ gh' = [w \in Jobs |->
                IF /\ thr[w].kind = k /\ InStart(w) /\ process[k] # None
                   /\ thr[w].own = process[k] /\ child[process[k]].st = "running"
                THEN [gh[w] EXCEPT !.run.cancelLive = TRUE]
                ELSE gh[w]]
    /\ UNCHANGED <<process, cancelled, thr, rows, tab, aux>>

\* the folders the user picks
Folders == {"D:/v", "E:/m"}

\* line 89, when the module is imported: cfg = load_config(); the folder
\* entries start with cfg's download_folder (lines 447, 503, 558)
Import ==
    /\ cfg = EmptyDict
    /\ cfg' = load_config(disk.config)
    /\ folder_var' = [k \in Kinds |-> cfg'["download_folder"].v]
    /\ UNCHANGED <<app, disk, upd, out_line, meta_thr, events>>

\* the window is closed while no thread runs; the program is started again
Close ==
    /\ cfg # EmptyDict
    /\ ui.pc = "idle" /\ ui_queue = <<>>
    /\ \A w \in Jobs : thr[w].pc = "idle"
    /\ \A u \in Updaters : upd[u].pc = "idle"
    /\ cfg' = EmptyDict
    /\ folder_var' = [k \in Kinds |-> ""]
    /\ UNCHANGED <<app, disk, upd, out_line, meta_thr, events>>

\* browse_folder, lines 634-640: the Browse button of tab k, the user picks a
\* folder in the dialog
browse_folder(k) ==
    /\ k = tab
    /\ ui.pc = "idle"
    /\ cfg # EmptyDict
    /\ \E folder \in Folders :
         /\ folder_var' = [folder_var EXCEPT ![k] = folder]
         /\ cfg' = SetItem(cfg, "download_folder", PStr(folder))
         /\ disk' = save_config(cfg')
    /\ UNCHANGED <<app, upd, out_line, meta_thr, events>>

\* open_settings.save_and_close, lines 1147-1153: df is the text of the
\* dialog's folder entry, ao and au its two check boxes
save_and_close ==
    /\ ui.pc = "idle"
    /\ cfg # EmptyDict
    /\ \E df \in Folders \cup {""}, ao \in {PTrue, PFalse}, au \in {PTrue, PFalse} :
         /\ cfg' = SetItem(SetItem(SetItem(cfg,
                       "download_folder", IF df # "" THEN PStr(df) ELSE cfg["download_folder"]),
                       "auto_open_folder", ao),
                       "auto_update_ytdlp", au)
         /\ disk' = save_config(cfg')
    /\ UNCHANGED <<app, folder_var, upd, out_line, meta_thr, events>>

\* ----------------------------------------------------- the self-update
\* the tag of the latest release (the bundled yt-dlp.exe is v1), and what
\* requests.get(GITHUB_API) gives: an error (no connection, an HTTP error
\* status), a body that is not the expected JSON, a release without a
\* yt-dlp.exe asset, the release
Responses == {"error", "malformed", "no asset", "v2"}

\* enqueue_ui(self._append_log, text) called by an update thread
UpdItem(text) == [job |-> 0, key |-> NoKey, act |-> "_append_log", arg |-> text, row |-> 0]

\* the update threads' messages of at most MaxPending calls wait in the queue
UpdRoom == Cardinality({i \in 1 .. Len(ui_queue) : ui_queue[i].job = 0}) < MaxPending

FreeUpdater == CHOOSE u \in Updaters :
                  /\ upd[u].pc \in {"idle", "done"}
                  /\ \A v \in Updaters : upd[v].pc \in {"idle", "done"} => u <= v

\* check_update, lines 1093-1100: the button's command starts a thread; the
\* button stays enabled while the thread runs
check_update ==
    /\ ui.pc = "idle"
    /\ \E u \in Updaters : upd[u].pc \in {"idle", "done"}
    /\ upd' = [upd EXCEPT ![FreeUpdater] = [IdleUpdate EXCEPT !.pc = "u98"]]
    /\ UNCHANGED <<app, cfg, disk, folder_var, out_line, meta_thr, events>>

\* return ok, msg: update_ytdlp is left, the worker goes on at line 1097
Returns(u, ok, msg) == [upd EXCEPT ![u].pc = "u1097", ![u].ok = ok, ![u].msg = msg]

\* an update_ytdlp without its try: the exception ends the thread
Except_Reraise(u, e) == [upd EXCEPT ![u].pc = "done", ![u].unhandled = e]

\* except Exception as e: return False, str(e), lines 142-143; the text of
\* the exception is not followed
Except(u, e) == Returns(u, FALSE, "str(e)")

\* lines 98-112: the request, the release's tag and asset, the comparison
\* with the recorded tag
Upd98(u) ==
    /\ upd[u].pc = "u98"
    /\ \E resp \in Responses :
         upd' = IF resp \in {"error", "malformed"} THEN Except(u, resp)
                ELSE IF resp = "no asset"
                     THEN Returns(u, FALSE, "No yt-dlp.exe found in release.")
                ELSE IF cfg["last_checked"] = PStr(resp)
                     THEN Returns(u, FALSE, "Already " \o resp)
                ELSE [upd EXCEPT ![u].pc = "u115", ![u].tag = resp]
    /\ UNCHANGED <<app, cfg, disk, folder_var, out_line, meta_thr, events>>

\* lines 115-121: the temporary folder, the first message, the request of
\* the asset
Upd115(u) ==
    /\ upd[u].pc = "u115"
    /\ UpdRoom
    /\ \E fail \in {"", "os.makedirs", "requests.get"} :
         /\ ui_queue' = IF fail = "os.makedirs" THEN ui_queue
                        ELSE Append(ui_queue, UpdItem("Downloading latest yt-dlp..."))
         /\ upd' = IF fail # "" THEN Except(u, fail) ELSE [upd EXCEPT ![u].pc = "u125"]
    /\ UNCHANGED <<process, cancelled, child, thr, ui, rows, tab, gh>>
    /\ UNCHANGED <<cfg, disk, folder_var, out_line, meta_thr, events>>

\* line 125: open(tmpfile, "wb") creates the file or empties it
Upd125(u) ==
    /\ upd[u].pc = "u125"
    /\ \E fail \in BOOLEAN :
         IF fail THEN upd' = Except(u, "open") /\ UNCHANGED disk
         ELSE /\ upd' = [upd EXCEPT ![u].pc = "u126", ![u].got = 0]
              /\ disk' = [disk EXCEPT !.tmp = [tag |-> upd[u].tag, n |-> 0]]
    /\ UNCHANGED <<app, cfg, folder_var, out_line, meta_thr, events>>

\* lines 126-132: one chunk is written at the thread's own position, n being
\* the chunks the file holds in a row from its start; with a content-length
\* the percentage is posted; after the last chunk the file is closed
Upd126(u) ==
    /\ upd[u].pc = "u126"
    /\ UpdRoom
    /\ \E fail \in BOOLEAN, total \in BOOLEAN :
         IF fail
         THEN upd' = Except(u, "iter_content") /\ UNCHANGED <<disk, ui_queue>>
         ELSE /\ disk' = IF disk.tmp # NoFile /\ disk.tmp.n = upd[u].got
                         THEN [disk EXCEPT !.tmp.n = @ + 1] ELSE disk
              /\ upd' = [upd EXCEPT ![u].got = @ + 1,
                                    ![u].pc = IF upd[u].got + 1 = AssetChunks
                                              THEN "u134" ELSE "u126"]
              /\ ui_queue' = IF total THEN Append(ui_queue, UpdItem("Downloading: pct%"))
                             ELSE ui_queue
    /\ UNCHANGED <<process, cancelled, child, thr, ui, rows, tab, gh>>
    /\ UNCHANGED <<cfg, folder_var, out_line, meta_thr, events>>

\* lines 134-137: if os.path.exists(dst): shutil.copy2(dst, dst + ".bak")
Upd134(u) ==
    /\ upd[u].pc = "u134"
    /\ \E fail \in BOOLEAN :
         IF fail THEN upd' = Except(u, "shutil.copy2") /\ UNCHANGED disk
         ELSE /\ upd' = [upd EXCEPT ![u].pc = "u138"]
              /\ disk' = IF disk.tool # NoFile THEN [disk EXCEPT !.bak = disk.tool] ELSE disk
    /\ UNCHANGED <<app, cfg, folder_var, out_line, meta_thr, events>>

\* line 138: shutil.move(tmpfile, dst)
Upd138(u) ==
    /\ upd[u].pc = "u138"
    /\ \E fail \in BOOLEAN :
         IF fail \/ disk.tmp = NoFile THEN upd' = Except(u, "shutil.move") /\ UNCHANGED disk
         ELSE /\ upd' = [upd EXCEPT ![u].pc = "u139"]
              /\ disk' = [disk EXCEPT !.tool = disk.tmp, !.tmp = NoFile]
    /\ UNCHANGED <<app, cfg, folder_var, out_line, meta_thr, events>>

\* lines 139-142: os.chmod, cfg["last_checked"] = tag, save_config(cfg),
\* return True, f"Updated to {tag}"
Upd139(u) ==
    /\ upd[u].pc = "u139"
    /\ \E fail \in {"", "os.chmod", "save_config"} :
         /\ cfg' = IF fail = "os.chmod" THEN cfg
                   ELSE SetItem(cfg, "last_checked", PStr(upd[u].tag))
         /\ disk' = IF fail = "" THEN save_config(cfg') ELSE disk
         /\ upd' = IF fail # "" THEN Except(u, fail)
                   ELSE Returns(u, TRUE, "Updated to " \o upd[u].tag)
    /\ UNCHANGED <<app, folder_var, out_line, meta_thr, events>>

\* lines 1097-1099: the result is posted to the log; after an update the
\* worker shows the message box itself; the thread ends
Upd1097(u) ==
    /\ upd[u].pc = "u1097"
    /\ UpdRoom
    /\ ui_queue' = Append(ui_queue, UpdItem("Update: " \o upd[u].msg))
    /\ upd' = [upd EXCEPT ![u] = IdleUpdate]
    /\ UNCHANGED <<process, cancelled, child, thr, ui, rows, tab, gh>>
    /\ UNCHANGED <<cfg, disk, folder_var, out_line, meta_thr, events>>

Updater(u) ==
    \/ Upd98(u) \/ Upd115(u) \/ Upd125(u) \/ Upd126(u)
    \/ Upd134(u) \/ Upd138(u) \/ Upd139(u) \/ Upd1097(u)

\* ------------------------------------------------ the metadata thread
\* what the check of one row finds (lines 853-881): the file is there, a
\* part of it, neither, the output has no "|", yt-dlp failed or could not be
\* run

MetaItem(act, arg, row) == [job |-> 0, key |-> NoKey, act |-> act, arg |-> arg, row |-> row]

\* lines 864-881: what the thread enqueues for the row
MetaActs(res, row) ==
    CASE res = "Exists"     -> << MetaItem("row.set_title", "title", row),
                                  MetaItem("row.set_status", "Exists", row),
                                  MetaItem("row.chk_var", "False", row) >>
      [] res = "Incomplete" -> << MetaItem("row.set_title", "title", row),
                                  MetaItem("row.set_status", "Incomplete", row) >>
      [] res = "Ready"      -> << MetaItem("row.set_title", "title", row),
                                  MetaItem("row.set_status", "Ready", row) >>
      [] res = "NoName"     -> << MetaItem("row.set_title", "output", row),
                                  MetaItem("row.set_status", "Ready", row) >>
      [] res = "Error"      -> << MetaItem("row.set_status", "Error", row) >>

\* the thread's actions for at most MaxPending rows wait in the queue

\* _batch_metadata_worker, lines 840-881: the next row of the for loop; the
\* thread ends after the last row
Meta840(n) ==
    /\ meta_thr.pc = "m840"
    /\ n = meta_thr.idx + 1
    /\ Cardinality({i \in 1 .. Len(ui_queue) :
                       ui_queue[i].job = 0 /\ ui_queue[i].act = "row.set_status"}) < MaxPending
    /\ \E res \in {"Exists", "Incomplete", "Ready", "NoName", "Error"} : ui_queue' = ui_queue \o MetaActs(res, n)
    /\ meta_thr' = IF n = MaxItems THEN [pc |-> "done", idx |-> n] ELSE [pc |-> "m840", idx |-> n]
    /\ UNCHANGED <<process, cancelled, child, thr, ui, rows, tab, gh>>
    /\ UNCHANGED <<cfg, disk, folder_var, upd, out_line, events>>

\* ------------------------------------------------------ specification
\* the program was run before: config.json holds the defaults it saved, the
\* tool is installed, no update thread runs, no line is being looked at
InitFiles ==
    /\ disk = [config |-> json_dump(DEFAULT_CONFIG),
               tool |-> [tag |-> "v1", n |-> AssetChunks], bak |-> NoFile, tmp |-> NoFile]
    /\ cfg = load_config(disk.config)
    /\ folder_var = [k \in Kinds |-> cfg["download_folder"].v]
    /\ upd = [u \in Updaters |-> IdleUpdate]
    /\ out_line = <<>>
    /\ events = NoEvents

\* the rows of the batch list were checked by their metadata thread long ago
InitAux == InitFiles /\ meta_thr = IdleMeta

InitApp ==
    /\ process = [k \in Kinds |-> None]
    /\ cancelled = [k \in Kinds |-> FALSE]
    /\ child = [c \in Children |-> NoChild]
    /\ thr = [w \in Jobs |-> IdleThread]
    /\ ui_queue = <<>>
    /\ ui = [pc |-> "idle", ck |-> "", over |-> 0,
             btn |-> [k \in Kinds |-> "normal"],
             cancelBtn |-> [k \in Kinds |-> "disabled"],
             key |-> [w \in Jobs |-> NoKey], shown |-> [w \in Jobs |-> FALSE],
             fifo |-> TRUE, overwrote |-> FALSE,
             final |-> [w \in Jobs |-> FALSE], late |-> [w \in Jobs |-> FALSE]]
    /\ tab \in Kinds
    /\ rows \in [Rows -> [chk : BOOLEAN, zero : {FALSE}]]
    /\ tab # "batch" => rows = [r \in Rows |-> [chk |-> TRUE, zero |-> FALSE]]
    /\ gh = [w \in Jobs |-> NoHistory]

Init == InitApp /\ InitAux

Runner(w) ==
    \/ Start202(w) \/ Start208(w) \/ Start212(w) \/ Start216(w)
    \/ Start216r(w) \/ Start217(w) \/ Start223(w)

Worker(w) ==
    \/ Single684(w) \/ Single779(w)
    \/ Batch886(w) \/ Batch911(w) \/ Batch963(w) \/ Batch976(w)
    \/ Playlist988(w) \/ Playlist1012(w) \/ Playlist1073(w)
    \/ Runner(w)

Environment ==
    \/ \E c \in Children : ChildWrite(c) \/ ChildClose(c) \/ ChildExit(c)
    \/ _process_ui_queue
    \/ \E k \in Kinds : cancel231(k)
    \/ cancel232

\* the whole program; ui.over counts the Download clicks made while an
\* earlier job has not ended
Next ==
    \/ \E w \in Jobs : Worker(w)
    \/ Environment
    \/ \E k \in Kinds : ui.over < MaxOverlap /\ start_download(k)

Spec == Init /\ [][Next]_vars

\* the program when the user presses a Download button only after the
\* previous job has ended and the UI thread has applied all its actions
NextSeq ==
    \/ \E w \in Jobs : Worker(w)
    \/ Environment
    \/ \E k \in Kinds : (\A w \in Jobs : Free(w)) /\ start_download(k)

SpecSeq == Init /\ [][NextSeq]_vars

\* a step of a thread that keeps running once started: a worker inside
\* start(), the UI thread inside cancel() or at its 100 ms drain, a killed
\* child, which ends and closes its output
Progress ==
    \/ \E w \in Jobs : Runner(w)
    \/ cancel232
    \/ _process_ui_queue
    \/ \E c \in Children : child[c].kill /\ ChildClose(c)

\* SpecSeq when the threads keep running
FairSeq == SpecSeq /\ WF_vars(Progress)

\* the Single tab when the user presses Download at any time, also while a
\* job is running, and never presses Cancel
NextClicks ==
    \/ \E w \in Jobs : Single684(w) \/ Single779(w) \/ Runner(w)
    \/ \E c \in Children : ChildWrite(c) \/ ChildClose(c) \/ ChildExit(c)
    \/ _process_ui_queue
    \/ ui.over < MaxOverlap /\ start_download("single")

InitClicks == Init /\ tab = "single"

SpecClicks == InitClicks /\ [][NextClicks]_vars

\* what a config.json found at start may hold for a key, beside nothing
Stored(k) ==
    CASE k = "download_folder"   -> <<JString("D:/v")>>
      [] k = "theme"             -> <<JString("light")>>
      [] k = "auto_open_folder"  -> <<JFalse>>
      [] k = "auto_update_ytdlp" -> <<JFalse>>
      [] k = "audio_format"      -> <<JString("mp3")>>
      [] k = "last_checked"      -> <<JString("v1"), JNull>>
      [] k = "app_icon"          -> <<JString("my.ico")>>
      [] k = "window"            -> <<JString("800x600")>>

StoredKeys == DefaultKeys \cup {"window"}

\* the object with the members h chooses (0: the key is absent), in KeyOrder
ObjectOf(h) ==
    LET keys == SelectSeq(KeyOrder, LAMBDA k : h[k] # 0)
    IN [kind |-> "object",
        members |-> [i \in 1 .. Len(keys) |->
                        [key |-> keys[i], val |-> Stored(keys[i])[h[keys[i]]]]]]

StoredFiles ==
    {[kind |-> k, members |-> <<>>] : k \in {"absent", "garbage", "scalar"}} \cup
    {ObjectOf(h) : h \in {g \in [StoredKeys -> 0 .. 2] :
                             \A k \in StoredKeys : g[k] <= Len(Stored(k))}}

\* the configuration alone: the program is started on any stored file, the
\* user changes folders and settings, closes the program and starts it again
InitConfig ==
    /\ InitApp /\ tab = "single"
    /\ disk \in {[config |-> file, tool |-> [tag |-> "v1", n |-> AssetChunks],
                   bak |-> NoFile, tmp |-> NoFile] : file \in StoredFiles}
    /\ cfg = EmptyDict
    /\ folder_var = [k \in Kinds |-> ""]
    /\ upd = [u \in Updaters |-> IdleUpdate]
    /\ out_line = <<>>
    /\ meta_thr = IdleMeta
    /\ events = NoEvents

NextConfig ==
    \/ Import
    \/ Close
    \/ \E k \in Kinds : browse_folder(k)
    \/ save_and_close

SpecConfig == InitConfig /\ [][NextConfig]_vars

\* the Single tab, one job after the other, while the user also uses the
\* Browse button and the settings window
NextShared ==
    \/ \E w \in Jobs : Single684(w) \/ Single779(w) \/ Runner(w)
    \/ \E c \in Children : ChildWrite(c) \/ ChildClose(c) \/ ChildExit(c)
    \/ _process_ui_queue
    \/ (\A w \in Jobs : Free(w)) /\ start_download("single")
    \/ browse_folder("single")
    \/ save_and_close

SpecShared == InitClicks /\ [][NextShared]_vars

\* the parts of the lines yt-dlp writes: tags, paths, percentages, words
Fragments ==
    { <<"[download]", " ">>,
      <<"[download]", " ", "Destination:", " ">>,
      <<"Destination:", " ">>,
      <<"[ExtractAudio]", " ">>,
      <<"[Merger]", " ">>,
      <<"/", "x", "/", "My Video", ".", "mp", "4">>,
      <<"C:", "\\", "x", ".", "y", "\\", "Song", ".", "MP", "3">>,
      <<"a", ".", "b", ".", "webm">>,
      <<"Song", ".", "m", "4", "a">>,
      <<"notes", ".", "txt">>,
      <<".", "hidden">>,
      <<"4", "5", ".", "2", "%">>,
      <<"4", "4", ".", "5", "%">>,
      <<"1", "0", "0", ".", "0", "%">>,
      <<"1", "5", "0", ".", "0", "%">>,
      <<"1", "2", "3", "4", ".", "5", "%">>,
      <<"5", "0", "%">>,
      <<" ", "has already been downloaded">>,
      <<"Downloading video", " ", "2", " ", "of", " ", "3">>,
      <<" ", "of", " ", "MiB", " ">> }

\* the lines of at most MaxFragments fragments, each ended by its newline
RECURSIVE LinesOf(_)
LinesOf(n) == IF n = 0 THEN {<<>>}
              ELSE LinesOf(n - 1) \cup {f \o t : f \in Fragments, t \in LinesOf(n - 1)}

Lines == {t \o <<"\n">> : t \in LinesOf(MaxFragments) \ {<<>>}}

\* the line callbacks alone: any line, handed to the callback of one worker
InitLines ==
    /\ InitApp /\ tab = "single"
    /\ disk = [config |-> json_dump(DEFAULT_CONFIG),
               tool |-> [tag |-> "v1", n |-> AssetChunks], bak |-> NoFile, tmp |-> NoFile]
    /\ cfg = load_config(disk.config)
    /\ folder_var = [k \in Kinds |-> cfg["download_folder"].v]
    /\ upd = [u \in Updaters |-> IdleUpdate]
    /\ out_line \in Lines
    /\ meta_thr = IdleMeta
    /\ events = NoEvents

NextLines == SingleLine \/ BatchLine \/ PlaylistLine

SpecLines == InitLines /\ [][NextLines]_vars

\* the self-update next to a download: check_update pressed at any time,
\* the update threads, one single download started and brought to start()
NextUpdate ==
    \/ check_update
    \/ \E u \in Updaters : Updater(u)
    \/ _process_ui_queue
    \/ (\A w \in Jobs : Free(w)) /\ start_download("single")
    \/ \E w \in Jobs : Single684(w)

SpecUpdate == InitClicks /\ [][NextUpdate]_vars

\* the Batch tab after add_batch_links (lines 800-820): the rows were
\* created, ticked, and the metadata thread started on them; the user
\* presses Download Selected at any time and never Cancel
InitMeta ==
    /\ InitApp /\ InitFiles
    /\ tab = "batch"
    /\ rows = [r \in Rows |-> [chk |-> TRUE, zero |-> FALSE]]
    /\ meta_thr = [pc |-> "m840", idx |-> 0]

NextMeta ==
    \/ \E n \in Rows : Meta840(n)
    \/ \E w \in Jobs : Batch886(w) \/ Batch911(w) \/ Batch963(w) \/ Batch976(w) \/ Runner(w)
    \/ \E c \in Children : ChildWrite(c) \/ ChildClose(c) \/ ChildExit(c)
    \/ _process_ui_queue
    \/ (\A w \in Jobs : Free(w)) /\ start_download("batch")

SpecMeta == InitMeta /\ [][NextMeta]_vars

\* ------------------------------------------------------- properties
\* C1: whenever cancel() kills the live child of a running start() call, that
\* call (no exception caught in it) returns the cancelled code -1, never the
\* child's exit code
C1_CancelReturnsCancelled ==
    \A w \in Jobs : Returned(w) /\ gh[w].run.cancelLive /\ ~gh[w].run.raised
                       => thr[w].rc = Cancelled

\* C2: at every moment at most one start() call is running on a manager and
\* at most one child spawned by the manager is running
C2_OneStartPerManager ==
    \A k \in Kinds :
       /\ Cardinality({w \in Jobs : thr[w].kind = k /\ InStart(w)}) <= 1
       /\ Cardinality({thr[w].own : w \in {v \in Jobs : /\ thr[v].kind = k
                                                        /\ thr[v].own # None
                                                        /\ child[thr[v].own].st = "running"}}) <= 1

\* C3: once Cancel was pressed during a batch run, at item K, the runner is
\* not started for a later item of that run
C3_BatchStopsAtCancelledItem ==
    \A w \in Jobs : thr[w].kind = "batch" /\ gh[w].cancelReq /\ InStart(w)
                       => thr[w].idx <= gh[w].cancelIdx

\* C4: when start() has returned, on any way out, the manager's process
\* handle is None
C4_HandleClearedOnReturn ==
    \A w \in Jobs : Returned(w) => process[thr[w].kind] = None

\* start() returned through its except clause while the child it spawned was
\* still running, and the handle is None
C4_ReturnedOnException ==
    \E w \in Jobs : /\ Returned(w) /\ thr[w].rc = ExcCode
                     /\ gh[w].run.raised /\ gh[w].run.ownSt = "running"
                     /\ process[thr[w].kind] = None

\* C5: the UI thread applies each job's actions in the order the worker
\* enqueued them, lines in the order the child wrote them, and no progress or
\* status update of a single job is applied after its final status
C5_AppliedInOrder ==
    ui.fifo /\ \A w \in Jobs : ~ui.late[w]

\* a single job has ended, its progress updates and then its final status
\* have been applied, nothing is left in the queue
C5_FinalAfterProgress ==
    \E w \in Jobs : /\ thr[w].kind = "single" /\ thr[w].pc = "done"
                     /\ ui.shown[w] /\ ui.final[w] /\ ui_queue = <<>>

\* C6, as stated: start() returns -1 exactly when it saw the cancelled flag,
\* and otherwise the exit code of the child it spawned
C6_CancelledOrChildCode ==
    \A w \in Jobs : Returned(w) =>
       /\ thr[w].rc = Cancelled <=> gh[w].run.flagSeen
       /\ ~gh[w].run.flagSeen => /\ gh[w].run.ownSt = "exited"
                                 /\ thr[w].rc = gh[w].run.ownRc

\* C6, amended: start() returns -1 exactly when it saw the cancelled flag;
\* otherwise it returns 1 when it caught an exception, and else the exit code
\* of the child it spawned, which has exited
C6_CancelledChildCodeOrException ==
    \A w \in Jobs : Returned(w) =>
       /\ thr[w].rc = Cancelled <=> gh[w].run.flagSeen
       /\ ~gh[w].run.flagSeen /\ gh[w].run.raised => thr[w].rc = ExcCode
       /\ ~gh[w].run.flagSeen /\ ~gh[w].run.raised =>
             /\ gh[w].run.ownSt = "exited"
             /\ thr[w].rc = gh[w].run.ownRc
             /\ thr[w].rc \in ExitCodes \cup KillCodes

\* start() returned 1 for a child that could not be spawned
C6_ReturnedOnSpawnFailure ==
    \E w \in Jobs : /\ Returned(w) /\ ~gh[w].run.flagSeen /\ gh[w].run.raised
                     /\ gh[w].run.ownSt = "none" /\ thr[w].rc = ExcCode

\* C7: once the cancelled flag is set during a start() call, the call
\* dispatches at most one more line and returns
C7_ReturnsSoonAfterCancel ==
    /\ [](\A w \in Jobs : gh[w].run.linesAfter <= 1)
    /\ \A w \in Jobs : (InStart(w) /\ gh[w].run.flagSet) ~> ~InStart(w)

\* start() returned -1 after dispatching one line that it had read when the
\* flag was set
C7_OneLineAfterCancel ==
    \E w \in Jobs : /\ Returned(w) /\ gh[w].run.flagSet /\ gh[w].run.linesAfter = 1
                     /\ thr[w].rc = Cancelled

\* C8: a batch run in which Cancel is not pressed calls start() once for
\* each item selected when it began, in list order, and counts as completed
\* the calls that returned 0
C8_BatchRunsEverySelectedItem ==
    \A w \in Jobs : thr[w].kind = "batch" /\ ~gh[w].cancelReq =>
       /\ InStart(w) \/ Returned(w) => gh[w].nStart \in {thr[w].idx - 1, thr[w].idx}
       /\ thr[w].completed = gh[w].zeros
       /\ thr[w].pc = "done" /\ gh[w].dialog = "" => gh[w].nStart = thr[w].total

\* C9: a worker that finds yt-dlp or ffmpeg missing shows its error and ends:
\* it has called neither start() nor run_process_stream() and has enqueued
\* no UI action
C9_NoAttemptWithoutTools ==
    \A w \in Jobs : gh[w].toolsMissing =>
       /\ thr[w].pc = "done" /\ gh[w].dialog # ""
       /\ gh[w].nStart = 0 /\ gh[w].nFetch = 0 /\ ~gh[w].enq
       /\ ui.key[w] = NoKey
       /\ \A i \in 1 .. Len(ui_queue) : ui_queue[i].job # w

\* a batch worker with a selected item has ended on missing tools
C9_BatchEndedWithoutTools ==
    \E w \in Jobs : /\ thr[w].kind = "batch" /\ thr[w].pc = "done"
                     /\ gh[w].toolsMissing /\ Checked(MaxItems) # <<>>

\* the actions a step added to the queue
Added == SubSeq(ui_queue', Len(ui_queue) + 1, Len(ui_queue'))

\* C10: when the child of a call exited with a nonzero code and Cancel was not
\* pressed, the worker reports the job (the item) as failed, not as finished
\* or cancelled, and start() is called once per URL of a run
C10_FailedOnceNoRetry ==
    /\ [](\A w \in Jobs : Returned(w) =>
              gh[w].nStart = IF thr[w].kind = "batch" THEN thr[w].idx ELSE 1)
    /\ [][\A w \in Jobs :
            ( /\ Returned(w) /\ ~Returned(w)' /\ ~gh[w].cancelReq
              /\ gh[w].run.ownSt = "exited" /\ gh[w].run.ownRc # 0 )
            => /\ \E i \in 1 .. Len(Added) : /\ Added[i].job = w
                                              /\ Added[i].arg = [single |-> "Error.", batch |-> "Failed",
                                                                 playlist |-> "Error"][thr[w].kind]
               /\ \A i \in 1 .. Len(Added) : Added[i].arg \notin {"Finished.", "Cancelled.", "Done", "Cancelled",
                                                              "Playlist Finished"}
               /\ thr'[w].pc \notin StartPcs]_vars

\* start() returned the nonzero exit code of its child, Cancel not pressed
C10_ReturnedNonzero ==
    \E w \in Jobs : /\ Returned(w) /\ ~gh[w].cancelReq /\ ~gh[w].run.raised
                     /\ gh[w].run.ownSt = "exited" /\ gh[w].run.ownRc = 2
                     /\ thr[w].rc = 2

\* C11: when the playlist metadata invocation exits with code 0 and its output
\* does not parse, the worker goes on: the step enqueues the start message
\* with an unknown item count and enters playlist_mgr.start, which is called
\* exactly once in the job
C11_UnparsedStillStarts ==
    /\ [](\A w \in Jobs : gh[w].meta = "unparsed" =>
              /\ thr[w].kind = "playlist"
              /\ InStart(w) \/ Returned(w) \/ thr[w].pc = "done"
              /\ gh[w].nStart <= 1
              /\ Returned(w) \/ thr[w].pc = "done" => gh[w].nStart = 1)
    /\ [][\A w \in Jobs :
            gh[w].meta = "" /\ gh'[w].meta = "unparsed"
            => /\ thr'[w].pc = "s202"
               /\ \E i \in 1 .. Len(Added) : Added[i].job = w /\ Added[i].arg =
                        "Starting playlist download (approx. unknown items)..."]_vars

\* a playlist job whose metadata did not parse has ended after one start()
\* call that returned 0
C11_UnparsedJobFinished ==
    \E w \in Jobs : /\ thr[w].kind = "playlist" /\ gh[w].meta = "unparsed"
                    /\ thr[w].pc = "done" /\ gh[w].nStart = 1 /\ gh[w].zeros = 1

\* C12: no failure inside a download worker thread ends the thread through an
\* exception nothing catches: every worker that has ended without a dialog
\* has posted a message through the UI queue
C12_EveryFailurePosted ==
    \A w \in Jobs :
       /\ gh[w].unhandled = ""
       /\ thr[w].pc = "done" /\ gh[w].dialog = "" => gh[w].enq

\* C13: no worker thread acts on the UI itself: every dialog, widget update
\* and log line of a job is an action in ui_queue, so a worker that has shown
\* a message has enqueued it
C13_WorkerUiThroughQueue ==
    \A w \in Jobs : gh[w].dialog # "" => gh[w].enq

\* C18: load_config on a stored object gives a record with every default
\* key, each key the object lacks at its default and each stored key at its
\* stored value; and load_config of what save_config wrote is the saved
\* record
C18_LoadFillsDefaultsKeepsStored ==
    /\ [][cfg = EmptyDict /\ cfg' # EmptyDict /\ disk.config.kind = "object" =>
            LET ms == disk.config.members IN
            /\ DefaultKeys \subseteq DOMAIN cfg'
            /\ \A i \in 1 .. Len(ms) : /\ ms[i].key \in DOMAIN cfg'
                                        /\ cfg'[ms[i].key] = Decode(ms[i].val)
            /\ \A k \in DefaultKeys :
                  (\A i \in 1 .. Len(ms) : ms[i].key # k) => cfg'[k] = DEFAULT_CONFIG[k]]_vars
    /\ [](cfg # EmptyDict /\ disk.config = json_dump(cfg) => load_config(disk.config) = cfg)

\* the program was started on a file that lacked the theme and held a key of
\* its own, the user picked another folder, and the record was saved
C18_LoadedChangedSaved ==
    /\ cfg # EmptyDict
    /\ disk.config = json_dump(cfg)
    /\ cfg["download_folder"] = PStr("E:/m")
    /\ cfg["theme"] = DEFAULT_CONFIG["theme"]
    /\ cfg["last_checked"] = PStr("v1")
    /\ "window" \in DOMAIN cfg

\* C14: the configuration record is written only between job runs: in a step
\* that writes cfg or config.json no worker thread is alive, except the
\* worker that takes the step
C14_WritesOnlyBetweenJobs ==
    [][cfg' # cfg \/ disk'.config # disk.config =>
          \A w \in Jobs : Alive(w) => thr'[w] # thr[w]]_vars

\* the calls of fn among the enqueued ones
Calls(fns) == SelectSeq(events.acts, LAMBDA ev : ev.fn \in fns)

ProgressSet == {"single_progress.set", "batch_progress.set", "playlist_progress.set"}

\* C15: for a line with a percentage (1-3 digits, a dot, digits, "%") the
\* progress fraction the single and the playlist callback apply is the first
\* such match divided by 100, and it lies in [0, 1]
C15_FractionOfFirstMatchInUnitRange ==
    events.kind \in {"single", "playlist"} /\ (\E i \in 1 .. Len(out_line) : MatchAt(out_line, i)) =>
       LET i == CHOOSE j \in 1 .. Len(out_line) :
                   MatchAt(out_line, j) /\ \A h \in 1 .. (j - 1) : ~MatchAt(out_line, h)
           a == DigitsFrom(out_line, i)
           b == DigitsFrom(out_line, i + a + 1)
           whole == IntVal(SubSeq(out_line, i, i + a - 1))
           frac == IntVal(SubSeq(out_line, i + a + 1, i + a + b))
           set == Calls(ProgressSet)
       IN /\ set # <<>>
          /\ set[1].num * Pow10(b) * 100 = (whole * Pow10(b) + frac) * set[1].den
          /\ \A j \in 1 .. Len(set) : 0 <= set[j].num /\ set[j].num <= set[j].den

\* the file path a line announces: what follows its first "Destination:"
Announced == Strip(AfterFirst(out_line, "Destination:"))

C17_AlreadyDownloadedShowsComplete ==
    ( /\ events.kind # "none"
      /\ HasSub(out_line, <<"[download]">>) /\ ~HasSub(out_line, <<"Destination:">>)
      /\ HasSub(out_line, <<"has already been downloaded">>) ) =>
       /\ \E j \in 1 .. Len(events.acts) :
             /\ events.acts[j].fn \in ProgressSet
             /\ events.acts[j].num = events.acts[j].den
       /\ \E j \in 1 .. Len(events.acts) :
             events.acts[j].text \in {"Already downloaded", "Exists"}

\* the places of an update thread inside update_ytdlp
InUpdate == {"u98", "u115", "u125", "u126", "u134", "u138", "u139"}

\* C19: an error during the self-update is caught inside update_ytdlp and
\* returned as (False, message): the thread never ends on an exception, it
\* leaves update_ytdlp only to line 1097, where "Update: message" is posted
\* to the log; no step of an update thread changes a DownloadManager, a
\* worker thread or a widget, or removes the tool a download needs to start
C19_UpdateErrorsCaughtAndPosted ==
    /\ [](\A u \in Updaters : upd[u].unhandled = "")
    /\ [][\A u \in Updaters :
            upd'[u] # upd[u] /\ upd[u].pc # "idle" =>
               /\ upd[u].pc \in InUpdate => upd'[u].pc \in InUpdate \cup {"u1097"}
               /\ upd[u].pc = "u1097" =>
                     ui_queue' = Append(ui_queue, UpdItem("Update: " \o upd[u].msg))
               /\ UNCHANGED <<process, cancelled, thr, ui>>
               /\ disk.tool # NoFile => disk'.tool # NoFile]_vars

\* an update failed after the temporary file was opened, its thread is about
\* to post the message, and a download has passed its checks and reached
\* start()
C19_FailedUpdateNextToDownload ==
    /\ \E u \in Updaters :
          /\ upd[u].pc = "u1097" /\ ~upd[u].ok /\ upd[u].msg = "str(e)"
          /\ disk.tmp # NoFile
    /\ \E w \in Jobs : thr[w].pc = "s202"

\* C20: the tool binary is replaced only when the release tag differs from
\* the recorded last_checked, only after the whole asset is in the temporary
\* file and the binary there was has been copied to the backup; last_checked
\* is set to the tag only after the replacement; an update_ytdlp that finds
\* the tags equal touches neither the binary nor the configuration
C20_ReplaceOnlyNewWholeBackedUp ==
    [][/\ disk'.tool # disk.tool =>
             \E u \in Updaters :
                /\ upd[u].pc = "u138" /\ upd'[u].pc = "u139"
                /\ cfg["last_checked"] # PStr(upd[u].tag)
                /\ disk.tmp = [tag |-> upd[u].tag, n |-> AssetChunks]
                /\ disk'.tool = disk.tmp
                /\ disk.bak = disk.tool
       /\ cfg'["last_checked"] # cfg["last_checked"] =>
             \E u \in Updaters :
                /\ upd[u].pc = "u139"
                /\ cfg'["last_checked"] = PStr(upd[u].tag)
                /\ disk.tool.tag = upd[u].tag
       /\ \A u \in Updaters :
             upd[u].pc = "u98" /\ upd'[u].pc = "u1097" => UNCHANGED <<cfg, disk>>]_vars

\* C21: a batch run in which Cancel was not pressed and that had a selected
\* item, folder and tools has called start() for its first item when it
\* reaches its closing block, whatever happened in the runs before it
C21_BatchRunStartsFirstItem ==
    \A w \in Jobs :
       ( /\ thr[w].kind = "batch" /\ thr[w].pc \in {"b976", "done"}
         /\ thr[w].total >= 1 /\ ~gh[w].cancelReq
         /\ gh[w].dialog = "" /\ gh[w].unhandled = "" ) => gh[w].nStart >= 1

\* C22: when Cancel was pressed before the job's start() call had executed
\* line 202 (during the playlist's metadata fetch, or between the worker's
\* opening block and start()), and start() caught no exception, start()
\* returns -1 and the worker reports the job as cancelled
C22_EarlyCancelNotLost ==
    [][\A w \in Jobs :
         ( /\ Returned(w) /\ ~Returned(w)'
           /\ gh[w].early /\ ~gh[w].run.raised )
         => /\ thr[w].rc = Cancelled
            /\ \E i \in 1 .. Len(Added) : /\ Added[i].job = w
                                           /\ Added[i].arg \in {"Cancelled.", "Cancelled"}]_vars

\* C23: once a status of a batch item's download run is displayed, the
\* metadata thread's status for the row (Ready, Exists, Incomplete, Error)
\* is never applied over it
C23_RunStatusNotOverwritten == ~ui.overwrote

\* C24, as stated: a start() call of a job in which Cancel was not pressed,
\* and that spawned its child, has dispatched every line the child wrote,
\* once and in the order written, and returns when the child's output is at
\* its end and the child has exited, with the child's exit code
C24_EveryLineThenExitCode ==
    \A w \in Jobs :
       ( Returned(w) /\ ~gh[w].cancelReq /\ gh[w].run.ownSt # "none" ) =>
          /\ gh[w].run.inOrder
          /\ gh[w].run.dispatched = gh[w].run.ownWritten
          /\ gh[w].run.ownLeft = 0
          /\ gh[w].run.ownSt = "exited"
          /\ thr[w].rc = gh[w].run.ownRc

\* C24, amended: every start() call dispatches lines once and in the order
\* written; a call of a job in which Cancel was not pressed and that caught
\* no exception has dispatched every line the child wrote and returns, with
\* the child's exit code, when the output is at its end and the child has
\* exited, and it does return then; a call that caught an exception returns 1
C24_EveryLineUnlessException ==
    /\ [](\A w \in Jobs :
            /\ gh[w].run.inOrder
            /\ ( Returned(w) /\ ~gh[w].cancelReq /\ ~gh[w].run.raised ) =>
                  /\ gh[w].run.dispatched = gh[w].run.ownWritten
                  /\ gh[w].run.ownLeft = 0
                  /\ gh[w].run.ownSt = "exited"
                  /\ thr[w].rc = gh[w].run.ownRc
            /\ ( Returned(w) /\ ~gh[w].run.flagSeen /\ gh[w].run.raised ) =>
                  thr[w].rc = ExcCode)
    /\ \A w \in Jobs :
          ( /\ InStart(w) /\ thr[w].own # None
            /\ child[thr[w].own].st = "exited" /\ child[thr[w].own].pipe = <<>> )
          ~> ~InStart(w)

\* start() returned the exit code of a child that wrote MaxLines lines, all
\* of them dispatched, Cancel not pressed
C24_AllLinesDispatched ==
    \E w \in Jobs : /\ Returned(w) /\ ~gh[w].cancelReq /\ ~gh[w].run.raised
                     /\ gh[w].run.ownWritten = MaxLines
                     /\ gh[w].run.dispatched = MaxLines
                     /\ thr[w].rc = gh[w].run.ownRc

\* C25: when start() has returned, on any way out, the child it spawned is
\* not left running: it has closed its output or exited, or was killed
C25_NoChildLeftRunning ==
    \A w \in Jobs : Returned(w) =>
       \/ gh[w].run.ownSt \in {"none", "closed", "exited"}
       \/ gh[w].run.ownKill

\* C26: a job whose worker has enqueued its opening block (Download
\* disabled, Cancel enabled) and has ended gets its buttons restored: the UI
\* thread comes to show Download enabled and Cancel disabled, the actions
\* applied in the order they were enqueued
C26_ButtonsRestored ==
    /\ [](ui.fifo)
    /\ \A w \in Jobs : \A k \in Kinds :
          ( thr[w].kind = k /\ thr[w].pc = "done" /\ gh[w].enq )
          ~> ( ui.btn[k] = "normal" /\ ui.cancelBtn[k] = "disabled" )

\* C27: when the playlist's metadata process exits with a nonzero code the
\* worker enqueues the failure message, Download enabled and Cancel
\* disabled, and ends; start() is never called for the job, and once the
\* UI thread has applied the job's actions Download is enabled and Cancel
\* disabled
C27_MetaFailureEndsJob ==
    /\ [](\A w \in Jobs : gh[w].meta = "failed" =>
              /\ thr[w].pc = "done" /\ gh[w].nStart = 0 /\ gh[w].nFetch = 1
              /\ (\A i \in 1 .. Len(ui_queue) : ui_queue[i].job # w) =>
                    /\ ui.btn["playlist"] = "normal"
                    /\ ui.cancelBtn["playlist"] = "disabled")
    /\ [][\A w \in Jobs :
            gh[w].meta # "failed" /\ gh'[w].meta = "failed" =>
               /\ Len(Added) = 3
               /\ \A i \in 1 .. 3 : Added[i].job = w /\ Added[i].arg = <<"Failed to fetch playlist info.", "normal", "disabled">>[i]
               /\ Added[1].act = "_append_log"
               /\ Added[2].act = "playlist_btn"
               /\ Added[3].act = "btn_cancel_pl"]_vars

\* a playlist job whose metadata process failed has ended without a start()
\* call, its actions are applied, Download is enabled again
C27_MetaFailedJobEnded ==
    \E w \in Jobs : /\ gh[w].meta = "failed" /\ thr[w].pc = "done" /\ gh[w].nStart = 0
                     /\ ui_queue = <<>> /\ ui.key[w] = <<0, 1, 0, 3>>
                     /\ ui.btn["playlist"] = "normal"

\* C28: a batch item whose run returned 0 is unticked by the time the batch
\* job's closing block has re-enabled Download; the next batch run does not
\* take it; a row is unticked only when its run returned 0, so failed and
\* cancelled items stay ticked
C28_DoneItemsUnchecked ==
    /\ [](\A r \in Rows : rows[r].zero /\ rows[r].chk =>
              \E w \in Jobs : /\ thr[w].kind = "batch" /\ thr[w].pc # "idle"
                              /\ ~Gone(w, thr, ui_queue)
                              /\ ui.key[w][2] < 4)
    /\ [][\A w \in Jobs : thr[w].pc = "b886" /\ thr'[w].pc = "b911" =>
             \A i \in 1 .. Len(thr'[w].todo) : ~rows[thr'[w].todo[i]].zero]_vars
    /\ [][\A r \in Rows : rows[r].chk /\ ~rows'[r].chk => rows[r].zero]_vars

\* a batch job has ended and its actions are applied: Download is enabled
\* again, the item that returned 0 is unticked, the item that did not is
\* still ticked
C28_DoneUntickedFailedTicked ==
    \E w \in Jobs :
       /\ thr[w].kind = "batch" /\ thr[w].pc = "done" /\ ui_queue = <<>>
       /\ ui.btn["batch"] = "normal" /\ thr[w].idx = 2
       /\ \E i, j \in 1 .. 2 :
             /\ rows[thr[w].todo[i]].zero /\ ~rows[thr[w].todo[i]].chk
             /\ ~rows[thr[w].todo[j]].zero /\ rows[thr[w].todo[j]].chk

====
